---------------------------- MODULE Spec2Model ----------------------------
(***************************************************************************)
(* A model of pagong's content rendering and templating engine:            *)
(*   - the heading identifier allocators (html.rs, adaptor.rs),            *)
(*   - the image-paragraph filter and the HTML writer (html.rs),           *)
(*   - the template rule parser and the template engine (template.rs,      *)
(*     utils.rs),                                                          *)
(*   - the heading adaptor (adaptor.rs), the post loader (post.rs), the    *)
(*     scan of the source directory (main.rs), the plan of a blog          *)
(*     (blog.rs) and its execution (fs_action.rs).                         *)
(* Text is modelled as a sequence of one-character strings; the HTML that  *)
(* the writer emits is a sequence of tokens in which every newline is a    *)
(* token of its own.                                                       *)
(***************************************************************************)
EXTENDS Integers, Sequences, FiniteSets, TLC

VARIABLES
    heading_identifiers,  \* HtmlWriter.heading_identifiers
    heading_calls,        \* the calls of HtmlWriter::generate_heading_id so far
    generated_ids,        \* HyperlinkHeadings.generated_ids
    adaptor_calls,        \* the ids issued by HyperlinkHeadings::next so far
    head,                 \* HyperlinkHeadings.head: <<>> for None, <<item>> for Some
    yielded,              \* the events HyperlinkHeadings::next has returned
    events,               \* the event sequence handed to ImageParagraphFilter::new
    iter,                 \* ImageParagraphFilter.iter: the events not yet pulled
    queue,                \* ImageParagraphFilter.queue
    filtered,             \* the items ImageParagraphFilter::next has returned
    out,                  \* HtmlWriter.writer: the tokens written so far
    title_written,        \* HtmlWriter.title_written
    expecting_heading_text, \* HtmlWriter.expecting_heading_text
    inside_footnote_def,  \* HtmlWriter.inside_footnote_def
    end_newline,          \* HtmlWriter.end_newline
    table_state,          \* HtmlWriter.table_state
    table_alignments,     \* HtmlWriter.table_alignments
    table_cell_index,     \* HtmlWriter.table_cell_index
    numbers,              \* HtmlWriter.numbers
    renders,              \* the calls of push_html that are over, and what they gave
    loaded,               \* whether the HtmlTemplate has been constructed
    html,                 \* HtmlTemplate.html
    replacements,         \* HtmlTemplate.replacements
    applied,              \* the last call of HtmlTemplate::apply and its result
    all_posts,            \* the post list of the caller, lent to apply as files
    apply_calls,          \* the calls of HtmlTemplate::apply that run side by side
    unparsed,             \* what the string lent to parse_next_value still holds
    values,               \* the values parse_next_value has returned
    parse_calls,          \* the calls of parse_next_value so far
    source,               \* the markdown and file data handed to Post::from_sources
    metadata,             \* the Metadata that from_sources is filling in
    meta_lines,           \* the lines of the meta block not yet applied
    loaded_post,          \* <<>>, or <<p>> for the Post that from_sources returned
    tree,                 \* the directory entries below the source root of a scan
    scan,                 \* the Scan under construction in Scan::new
    blog,                 \* the Blog whose plan is generated
    actions,              \* the FsAction list: the plan of generate_actions
    disk,                 \* the file system: the kind of every path that exists
    executed,             \* the actions execute_fs_actions has run, in order
    result                \* what execute_fs_actions returned, "Running" before

headingVars == <<heading_identifiers, heading_calls, generated_ids, adaptor_calls,
                 head, yielded>>
filterVars == <<events, iter, queue, filtered>>
writerVars == <<out, title_written, expecting_heading_text, inside_footnote_def,
                end_newline, table_state, table_alignments, table_cell_index,
                numbers, renders>>
templateVars == <<loaded, html, replacements, applied, all_posts, apply_calls>>
parseVars == <<unparsed, values, parse_calls>>
siteVars == <<source, metadata, meta_lines, loaded_post, tree, scan, blog, actions, disk,
              executed, result>>
vars == <<headingVars, filterVars, writerVars, templateVars, parseVars, siteVars>>

(***************************************************************************)
(* Bounds of the model.                                                    *)
(***************************************************************************)
MaxHeadings == 3
MaxHeadingLen == 4
MaxFilterFrags == 4
MaxBlocks == 3
MaxTemplateFrags == 2
MaxParseLen == 5
MaxTocLen == 3
MaxTocDepth == 3
MaxPosts == 3
MaxCss == 3
MaxColumns == 2
MaxRows == 1
MaxRenders == 3
MaxCalls == 2
\* the most lines between the fences of a meta block
MaxMetaLines == 2
\* the most entries in the source root of a scan
MaxEntries == 3
\* the most posts of a blog
MaxBlogPosts == 2
\* the longest list handed to execute_fs_actions on its own
MaxActions == 3

(***************************************************************************)
(* Characters.                                                             *)
(***************************************************************************)
DigitChars == {"0", "1", "2", "3", "4", "5", "6", "7", "8", "9"}

\* char::is_alphanumeric
IsAlphanumeric(c) ==
    LET LowerChars == {"x", "a", "d", "e", "h", "l", "o", "r", "w"}
        UpperChars == {"X", "H", "W"}
    IN  c \in LowerChars \cup UpperChars \cup DigitChars

\* char::to_lowercase, which yields an iterator of characters
ToLowercase(c) ==
    CASE c = "X" -> <<"x">>
      [] c = "H" -> <<"h">>
      [] c = "W" -> <<"w">>
      [] c = "T" -> <<"t">>
      [] c = "M" -> <<"m">>
      [] c = "D" -> <<"d">>
      [] OTHER -> <<c>>

DigitOf(d) == <<"0", "1", "2", "3", "4", "5", "6", "7", "8", "9">>[d + 1]

\* format!("{}", n) for an unsigned integer
RECURSIVE Decimal(_)
Decimal(n) ==
    IF n < 10 THEN <<DigitOf(n)>>
    ELSE Decimal(n \div 10) \o <<DigitOf(n % 10)>>

SeqsUpTo(S, n) == UNION { [1..k -> S] : k \in 0..n }

RECURSIVE Flatten(_)
Flatten(ss) == IF ss = <<>> THEN <<>> ELSE Head(ss) \o Flatten(Tail(ss))

(***************************************************************************)
(* HtmlWriter::generate_heading_id                                         *)
(***************************************************************************)
SEP_CHAR == "_"

\* the body of the for_each closure, folded over heading.chars() from index i
RECURSIVE HeadingFold(_, _, _, _)
HeadingFold(heading, i, identifier, ignored_last) ==
    IF i > Len(heading) THEN identifier
    ELSE IF IsAlphanumeric(heading[i])
         THEN HeadingFold(heading, i + 1,
                          identifier \o ToLowercase(heading[i]), FALSE)
         ELSE IF ~ignored_last
              THEN HeadingFold(heading, i + 1, identifier \o <<SEP_CHAR>>, TRUE)
              ELSE HeadingFold(heading, i + 1, identifier, ignored_last)

\* a plausible slip: ignored_last is never set, so runs are not collapsed
RECURSIVE HeadingFoldNoCollapse(_, _, _, _)
HeadingFoldNoCollapse(heading, i, identifier, ignored_last) ==
    IF i > Len(heading) THEN identifier
    ELSE IF IsAlphanumeric(heading[i])
         THEN HeadingFoldNoCollapse(heading, i + 1,
                                    identifier \o ToLowercase(heading[i]), FALSE)
         ELSE HeadingFoldNoCollapse(heading, i + 1,
                                    identifier \o <<SEP_CHAR>>, FALSE)

NormalizeNoCollapse(heading) == HeadingFoldNoCollapse(heading, 1, <<>>, FALSE)

\* the identifier before collision resolution
NormalizeHeading(heading) == HeadingFold(heading, 1, <<>>, FALSE)

\* for n in 2.. : the first identifier_n that the set does not hold
RECURSIVE FirstFreeSuffix(_, _, _)
FirstFreeSuffix(ids, identifier, n) ==
    LET new_identifier == identifier \o <<SEP_CHAR>> \o Decimal(n)
    IN  IF new_identifier \notin ids THEN new_identifier
        ELSE FirstFreeSuffix(ids, identifier, n + 1)

\* a plausible slip: the suffixed identifier is not checked against the set
HeadingIdNoRecheck(ids, heading) ==
    LET identifier == NormalizeHeading(heading)
    IN  IF identifier \notin ids THEN identifier
        ELSE identifier \o <<SEP_CHAR>> \o Decimal(2)

\* a plausible slip: the suffix loop starts at 1
HeadingIdFromOne(ids, heading) ==
    LET identifier == NormalizeHeading(heading)
    IN  IF identifier \notin ids THEN identifier
        ELSE FirstFreeSuffix(ids, identifier, 1)

\* the identifier generate_heading_id returns when the set holds ids
HeadingId(ids, heading) ==
    LET identifier == NormalizeHeading(heading)
    IN  IF identifier \notin ids THEN identifier
        ELSE FirstFreeSuffix(ids, identifier, 2)

(***************************************************************************)
(* HyperlinkHeadings: the identifier of a heading                          *)
(***************************************************************************)
\* utils::generate_heading_id, after the allocator's normalisation rule:
\* alphanumerics lowercased, every run of other characters one separator
UtilsHeadingId(heading) ==
    LET Keep(i) == IsAlphanumeric(heading[i])
                   \/ i = 1 \/ IsAlphanumeric(heading[i - 1])
        Piece(i) == IF IsAlphanumeric(heading[i]) THEN ToLowercase(heading[i])
                    ELSE <<SEP_CHAR>>
        F[i \in 0..Len(heading)] ==
            IF i = 0 THEN <<>>
            ELSE IF Keep(i) THEN F[i - 1] \o Piece(i) ELSE F[i - 1]
    IN  F[Len(heading)]

\* while self.generated_ids.contains(&id) { i += 1; id = original_id + i }
RECURSIVE AdaptorFirstFree(_, _, _)
AdaptorFirstFree(ids, original_id, i) ==
    LET id == original_id \o Decimal(i)
    IN  IF id \notin ids THEN id ELSE AdaptorFirstFree(ids, original_id, i + 1)

\* the identifier HyperlinkHeadings::next gives a heading
AdaptorHeadingId(ids, text) ==
    LET id == UtilsHeadingId(text)
    IN  IF id \in ids THEN AdaptorFirstFree(ids, id, 2) ELSE id

(***************************************************************************)
(* The heading texts of a render pass.                                     *)
(***************************************************************************)
HeadingTexts ==
    { <<"x">>, <<"X">>, <<"x", " ", "2">>, <<"x", "_", "2">>, <<"x", "2">>,
      <<"x", " ", " ", "2">>, <<" ", "x">>, <<"x", "_", "2", "_", "2">> }

(***************************************************************************)
(* Markup events (pulldown_cmark::Event).  Every event is a record of the  *)
(* same shape: arg and title are character sequences, kind a string.       *)
(***************************************************************************)
Ev(type, tag, arg, title, kind) ==
    [type |-> type, tag |-> tag, arg |-> arg, title |-> title, kind |-> kind]

StartEv(tag, arg, title, kind) == Ev("Start", tag, arg, title, kind)
EndEv(tag, arg, title, kind) == Ev("End", tag, arg, title, kind)
TextEv(text) == Ev("Text", "", text, <<>>, "")
NoEvent == Ev("None", "", <<>>, <<>>, "")

StartParagraph == StartEv("Paragraph", <<>>, <<>>, "")
EndParagraph == EndEv("Paragraph", <<>>, <<>>, "")
StartImage(dest, title) == StartEv("Image", dest, title, "Inline")
EndImage(dest, title) == EndEv("Image", dest, title, "Inline")
SoftBreak == Ev("SoftBreak", "", <<>>, <<>>, "")

(***************************************************************************)
(* ImageParagraphFilter                                                    *)
(***************************************************************************)
\* a plausible slip: the loop runs while the queue holds n items or fewer
RECURSIVE LookaheadPastN(_, _)
LookaheadPastN(f, n) ==
    IF Len(f.queue) <= n /\ f.iter # <<>>
    THEN LookaheadPastN([iter |-> Tail(f.iter),
                         queue |-> Append(f.queue, Head(f.iter))], n)
    ELSE f

\* lookahead_n: pull from the iterator until the queue holds n items
RECURSIVE LookaheadN(_, _)
LookaheadN(f, n) ==
    IF Len(f.queue) < n /\ f.iter # <<>>
    THEN LookaheadN([iter |-> Tail(f.iter),
                     queue |-> Append(f.queue, Head(f.iter))], n)
    ELSE f

\* the match of next() on the five-slot buffer; q is the queue after the pop
IsImageParagraph(first, q) ==
    /\ Len(q) >= 4
    /\ first.type = "Start" /\ first.tag = "Paragraph"
    /\ q[1].type = "Start" /\ q[1].tag = "Image"
    /\ q[2].type = "Text"
    /\ q[3].type = "End" /\ q[3].tag = "Image"
    /\ q[4].type = "End" /\ q[4].tag = "Paragraph"

\* a plausible slip: the end of the paragraph is not popped
FilterNextKeepEnd(f) ==
    LET la == LookaheadN(f, 5)
    IN  IF la.queue = <<>>
        THEN [iter |-> la.iter, queue |-> la.queue, some |-> FALSE,
              event |-> NoEvent, flag |-> FALSE]
        ELSE LET first == Head(la.queue)
                 q == Tail(la.queue)
             IN  IF IsImageParagraph(first, q)
                 THEN [iter |-> la.iter,
                       queue |-> <<q[2], q[3]>> \o SubSeq(q, 4, Len(q)),
                       some |-> TRUE, event |-> q[1], flag |-> TRUE]
                 ELSE [iter |-> la.iter, queue |-> q, some |-> TRUE,
                       event |-> first, flag |-> FALSE]

\* a plausible slip: the image text and end are pushed back in the wrong order
FilterNextSwapped(f) ==
    LET la == LookaheadN(f, 5)
    IN  IF la.queue = <<>>
        THEN [iter |-> la.iter, queue |-> la.queue, some |-> FALSE,
              event |-> NoEvent, flag |-> FALSE]
        ELSE LET first == Head(la.queue)
                 q == Tail(la.queue)
             IN  IF IsImageParagraph(first, q)
                 THEN [iter |-> la.iter,
                       queue |-> <<q[3], q[2]>> \o SubSeq(q, 5, Len(q)),
                       some |-> TRUE, event |-> q[1], flag |-> TRUE]
                 ELSE [iter |-> la.iter, queue |-> q, some |-> TRUE,
                       event |-> first, flag |-> FALSE]

\* ImageParagraphFilter::next on the filter f = [iter, queue]
FilterNext(f) ==
    LET la == LookaheadN(f, 5)
    IN  IF la.queue = <<>>
        THEN [iter |-> la.iter, queue |-> la.queue, some |-> FALSE,
              event |-> NoEvent, flag |-> FALSE]
        ELSE LET first == Head(la.queue)
                 q == Tail(la.queue)
             IN  IF IsImageParagraph(first, q)
                 THEN \* pops image start, text, end and the paragraph end,
                      \* then pushes the image end and text back at the front
                      [iter |-> la.iter,
                       queue |-> <<q[2], q[3]>> \o SubSeq(q, 5, Len(q)),
                       some |-> TRUE, event |-> q[1], flag |-> TRUE]
                 ELSE [iter |-> la.iter, queue |-> q, some |-> TRUE,
                       event |-> first, flag |-> FALSE]

\* the image of the event sequences
ImgDest == <<"u">>
ImgTitle == <<"c">>


(***************************************************************************)
(* HtmlWriter.  A writer state is the record of the HtmlWriter fields; the *)
(* iterator of the writer is the filter [iter, queue].                     *)
(***************************************************************************)
\* escape::escape_html: the four characters HTML text may not hold
EscapeHtml(text) ==
    LET Escaped(c) == CASE c = "<" -> "&lt;"
                        [] c = ">" -> "&gt;"
                        [] c = "&" -> "&amp;"
                        [] c = "\"" -> "&quot;"
                        [] OTHER -> c
    IN  [i \in 1..Len(text) |-> Escaped(text[i])]

\* escape::escape_href: the ampersand and the single quote as entities,
\* the bytes a URL may not hold percent-encoded
EscapeHref(text) ==
    LET Escaped(c) == CASE c = "&" -> "&amp;"
                        [] c = "'" -> "&#x27;"
                        [] c = " " -> "%20"
                        [] c = "\"" -> "%22"
                        [] c = "<" -> "%3C"
                        [] c = ">" -> "%3E"
                        [] OTHER -> c
    IN  [i \in 1..Len(text) |-> Escaped(text[i])]

\* str::ends_with('\n')
EndsWithNewline(text) == text # <<>> /\ text[Len(text)] = "\n"

\* self.write(s)
Write(s, toks) ==
    [s EXCEPT !.out = @ \o toks,
              !.end_newline = IF toks = <<>> THEN @ ELSE EndsWithNewline(toks)]

\* self.writer.write_str(s), write!(&mut self.writer, ..), escape_html(..)
WriteStr(s, toks) == [s EXCEPT !.out = @ \o toks]

\* self.write_newline()
WriteNewline(s) == [s EXCEPT !.out = @ \o <<"\n">>, !.end_newline = TRUE]

\* a block-level tag: the tag, with a newline in front unless one was written
WriteBlock(s, toks) ==
    IF s.end_newline THEN Write(s, toks) ELSE Write(s, <<"\n">> \o toks)

\* a plausible slip: the number is the length of the table, not length + 1
FootnoteNumberFromZero(table, name) ==
    IF name \in DOMAIN table
    THEN [numbers |-> table, number |-> table[name]]
    ELSE [numbers |-> (name :> Cardinality(DOMAIN table)) @@ table,
          number |-> Cardinality(DOMAIN table)]

\* let len = self.numbers.len() + 1;
\* let number = *self.numbers.entry(name).or_insert(len);
FootnoteNumber(table, name) ==
    IF name \in DOMAIN table
    THEN [numbers |-> table, number |-> table[name]]
    ELSE [numbers |-> (name :> (Cardinality(DOMAIN table) + 1)) @@ table,
          number |-> Cardinality(DOMAIN table) + 1]

\* self.iter.next() of the writer: the filter step, kept in the writer state
Pull(s) == FilterNext([iter |-> s.iter, queue |-> s.queue])
Pulled(s, r) == [s EXCEPT !.iter = r.iter, !.queue = r.queue]

\* raw_text: the alt text of an image, up to the end tag that closes it
RECURSIVE RawText(_, _)
RawText(s, nest) ==
    LET r == Pull(s)
        s1 == Pulled(s, r)
        e == r.event
    IN  IF ~r.some THEN s1
        ELSE CASE e.type = "Start" -> RawText(s1, nest + 1)
               [] e.type = "End" ->
                    IF nest = 0 THEN s1 ELSE RawText(s1, nest - 1)
               [] e.type \in {"Html", "Code", "Text"} ->
                    RawText([WriteStr(s1, EscapeHtml(e.arg))
                               EXCEPT !.end_newline = EndsWithNewline(e.arg)],
                            nest)
               [] e.type \in {"SoftBreak", "HardBreak", "Rule"} ->
                    RawText(Write(s1, <<" ">>), nest)
               [] e.type = "FootnoteReference" ->
                    LET n == FootnoteNumber(s1.numbers, e.arg)
                    IN  RawText(WriteStr([s1 EXCEPT !.numbers = n.numbers],
                                         <<"[">> \o Decimal(n.number) \o <<"]">>),
                                nest)
               [] e.type = "TaskListMarker" ->
                    RawText(Write(s1, IF e.kind = "true" THEN <<"[x]">>
                                      ELSE <<"[ ]">>), nest)

\* info.split(' ').next().unwrap()
FirstWord(info) ==
    LET spaces == { i \in 1..Len(info) : info[i] = " " }
    IN  IF spaces = {} THEN info
        ELSE SubSeq(info, 1, (CHOOSE i \in spaces : \A j \in spaces : i <= j) - 1)

\* the attribute part shared by the two Tag::Link arms
LinkRest(s, e) ==
    LET s1 == WriteStr(s, EscapeHref(e.arg))
        s2 == IF e.title # <<>>
              THEN WriteStr(Write(s1, <<"\" title=\"">>), EscapeHtml(e.title))
              ELSE s1
    IN  Write(s2, <<"\">">>)

\* a plausible slip: the title flag is never set
StartHeadingNoFlag(s, e) ==
    LET s1 == IF s.end_newline THEN [s EXCEPT !.end_newline = FALSE]
              ELSE WriteStr(s, <<"\n">>)
        s2 == WriteStr(s1, <<"<h">> \o e.arg)
        s3 == IF ~s2.title_written
              THEN WriteStr(s2, <<" class=\"title\"">>)
              ELSE s2
    IN  WriteStr([s3 EXCEPT !.expecting_heading_text = TRUE], <<" id=\"">>)

\* start_tag, Tag::Heading(level)
StartHeading(s, e) ==
    LET s1 == IF s.end_newline THEN [s EXCEPT !.end_newline = FALSE]
              ELSE WriteStr(s, <<"\n">>)
        s2 == WriteStr(s1, <<"<h">> \o e.arg)
        s3 == IF ~s2.title_written
              THEN WriteStr([s2 EXCEPT !.title_written = TRUE],
                            <<" class=\"title\"">>)
              ELSE s2
    IN  WriteStr([s3 EXCEPT !.expecting_heading_text = TRUE], <<" id=\"">>)

\* an image tag that is written bare whatever its flag says
StartImageTagBare(s, e, is_standalone) ==
    LET s2 == WriteStr(Write(s, <<"<img src=\"">>), EscapeHref(e.arg))
        s3 == RawText(Write(s2, <<"\" alt=\"">>), 0)
        s4 == IF e.title # <<>>
              THEN WriteStr(Write(s3, <<"\" title=\"">>), EscapeHtml(e.title))
              ELSE s3
    IN  Write(s4, <<"\" />">>)

\* a table cell that is written as a body cell whatever the table state
StartTableCellBody(s) ==
    LET s1 == Write(s, <<"<td">>)
        i == s.table_cell_index + 1
        a == IF i <= Len(s.table_alignments) THEN s.table_alignments[i]
             ELSE "Absent"
    IN  CASE a = "Left" -> Write(s1, <<" align=\"left\">">>)
          [] a = "Center" -> Write(s1, <<" align=\"center\">">>)
          [] a = "Right" -> Write(s1, <<" align=\"right\">">>)
          [] OTHER -> Write(s1, <<">">>)

\* start_tag, Tag::TableCell
StartTableCell(s) ==
    LET s1 == Write(s, IF s.table_state = "Head" THEN <<"<th">> ELSE <<"<td">>)
        i == s.table_cell_index + 1
        a == IF i <= Len(s.table_alignments) THEN s.table_alignments[i]
             ELSE "Absent"
    IN  CASE a = "Left" -> Write(s1, <<" align=\"left\">">>)
          [] a = "Center" -> Write(s1, <<" align=\"center\">">>)
          [] a = "Right" -> Write(s1, <<" align=\"right\">">>)
          [] OTHER -> Write(s1, <<">">>)

\* start_tag, Tag::CodeBlock(info)
StartCodeBlock(s, e) ==
    LET s1 == IF ~s.end_newline THEN WriteNewline(s) ELSE s
        lang == FirstWord(e.arg)
    IN  IF e.kind = "Fenced" /\ lang # <<>>
        THEN Write(WriteStr(Write(s1, <<"<pre>", "<code class=\"language-">>),
                            EscapeHtml(lang)),
                   <<"\">">>)
        ELSE Write(s1, <<"<pre>", "<code>">>)

\* start_tag, Tag::Image(_, dest, title)
StartImageTag(s, e, is_standalone) ==
    LET s1 == IF is_standalone
              THEN Write(s, <<"<div class=\"image-container\">", "\n">>)
              ELSE s
        s2 == WriteStr(Write(s1, <<"<img src=\"">>), EscapeHref(e.arg))
        s3 == RawText(Write(s2, <<"\" alt=\"">>), 0)
        s4 == IF e.title # <<>>
              THEN WriteStr(Write(s3, <<"\" title=\"">>), EscapeHtml(e.title))
              ELSE s3
        s5 == Write(s4, <<"\" />">>)
    IN  IF is_standalone
        THEN LET c1 == Write(s5, <<"\n", "<div class=\"image-caption\">">>)
                 c2 == WriteStr(c1, EscapeHtml(e.title))
                 c3 == Write(c2, <<"</div>", "\n">>)
                 c4 == Write(c3, <<"</div>", "\n">>)
             IN  Write(c4, <<"<p>", "\n">>)
        ELSE s5

\* start_tag, Tag::FootnoteDefinition(name)
StartFootnoteDefinition(s, e) ==
    LET s1 == WriteBlock([s EXCEPT !.inside_footnote_def = TRUE],
                         <<"<p class=\"footnote\" id=\"f.">>)
        s2 == Write(WriteStr(s1, EscapeHtml(e.arg)), <<"\">", "<sup>">>)
        n == FootnoteNumber(s2.numbers, e.arg)
        s3 == WriteStr([s2 EXCEPT !.numbers = n.numbers], Decimal(n.number))
    IN  Write(s3, <<"</sup> ">>)

\* start_tag
StartTag(s, e, is_standalone) ==
    CASE e.tag = "Paragraph" ->
            IF s.inside_footnote_def THEN s ELSE WriteBlock(s, <<"<p>">>)
      [] e.tag = "Heading" -> StartHeading(s, e)
      [] e.tag = "Table" ->
            Write([s EXCEPT !.table_alignments = e.arg], <<"<table>">>)
      [] e.tag = "TableHead" ->
            Write([s EXCEPT !.table_state = "Head", !.table_cell_index = 0],
                  <<"<thead>", "<tr>">>)
      [] e.tag = "TableRow" ->
            Write([s EXCEPT !.table_cell_index = 0], <<"<tr>">>)
      [] e.tag = "TableCell" -> StartTableCell(s)
      [] e.tag = "BlockQuote" -> WriteBlock(s, <<"<blockquote>", "\n">>)
      [] e.tag = "CodeBlock" -> StartCodeBlock(s, e)
      [] e.tag = "List" ->
            IF e.kind = "Unordered" THEN WriteBlock(s, <<"<ul>", "\n">>)
            ELSE IF e.arg = <<"1">> THEN WriteBlock(s, <<"<ol>", "\n">>)
            ELSE Write(WriteStr(WriteBlock(s, <<"<ol start=\"">>), e.arg),
                       <<"\">", "\n">>)
      [] e.tag = "Item" -> WriteBlock(s, <<"<li>">>)
      [] e.tag = "Emphasis" -> Write(s, <<"<em>">>)
      [] e.tag = "Strong" -> Write(s, <<"<strong>">>)
      [] e.tag = "Strikethrough" -> Write(s, <<"<del>">>)
      [] e.tag = "Link" ->
            IF e.kind = "Email"
            THEN LinkRest(Write(s, <<"<a href=\"mailto:">>), e)
            ELSE LinkRest(Write(s, <<"<a href=\"">>), e)
      [] e.tag = "Image" -> StartImageTag(s, e, is_standalone)
      [] e.tag = "FootnoteDefinition" -> StartFootnoteDefinition(s, e)

\* end_tag
EndTag(s, e) ==
    CASE e.tag = "Paragraph" ->
            IF ~s.inside_footnote_def THEN Write(s, <<"</p>", "\n">>) ELSE s
      [] e.tag = "Heading" ->
            Write(WriteStr(Write(s, <<"</h">>), e.arg), <<">", "\n">>)
      [] e.tag = "Table" -> Write(s, <<"</tbody>", "</table>", "\n">>)
      [] e.tag = "TableHead" ->
            [Write(s, <<"</tr>", "</thead>", "<tbody>", "\n">>)
               EXCEPT !.table_state = "Body"]
      [] e.tag = "TableRow" -> Write(s, <<"</tr>", "\n">>)
      [] e.tag = "TableCell" ->
            [Write(s, IF s.table_state = "Head" THEN <<"</th>">> ELSE <<"</td>">>)
               EXCEPT !.table_cell_index = @ + 1]
      [] e.tag = "BlockQuote" -> Write(s, <<"</blockquote>", "\n">>)
      [] e.tag = "CodeBlock" -> Write(s, <<"</code>", "</pre>", "\n">>)
      [] e.tag = "List" ->
            IF e.kind = "Unordered" THEN Write(s, <<"</ul>", "\n">>)
            ELSE Write(s, <<"</ol>", "\n">>)
      [] e.tag = "Item" -> Write(s, <<"</li>", "\n">>)
      [] e.tag = "Emphasis" -> Write(s, <<"</em>">>)
      [] e.tag = "Strong" -> Write(s, <<"</strong>">>)
      [] e.tag = "Strikethrough" -> Write(s, <<"</del>">>)
      [] e.tag = "Link" -> Write(s, <<"</a>">>)
      [] e.tag = "Image" -> s
      [] e.tag = "FootnoteDefinition" ->
            WriteStr([s EXCEPT !.inside_footnote_def = FALSE],
                     <<" <a href=\"#r.">> \o e.arg
                        \o <<"\">&#8617;</a>", "</p>", "\n">>)

\* run, Text(text)
RunText(s, e) ==
    LET s1 == IF s.expecting_heading_text
              THEN LET identifier == HeadingId(s.heading_identifiers, e.arg)
                       s0 == [s EXCEPT !.expecting_heading_text = FALSE,
                                       !.heading_identifiers = @ \cup {identifier}]
                   IN  WriteStr(s0, identifier
                                    \o <<"\">", "<a class=\"anchor\" href=\"#">>
                                    \o identifier \o <<"\">&para;</a>">>)
              ELSE s
    IN  [WriteStr(s1, EscapeHtml(e.arg))
           EXCEPT !.end_newline = EndsWithNewline(e.arg)]

\* a plausible slip: the two anchor prefixes are exchanged
RunFootnoteReferenceSwapped(s, e) ==
    LET n == FootnoteNumber(s.numbers, e.arg)
        s1 == WriteStr([s EXCEPT !.numbers = n.numbers],
                       <<"<sup class=\"footnote-reference\" id=\"f.">> \o e.arg
                          \o <<"\">", "<a href=\"#r.">>)
        s2 == Write(WriteStr(s1, EscapeHtml(e.arg)), <<"\">">>)
    IN  Write(WriteStr(s2, Decimal(n.number)), <<"</a>", "</sup>">>)

\* run, FootnoteReference(name)
RunFootnoteReference(s, e) ==
    LET n == FootnoteNumber(s.numbers, e.arg)
        s1 == WriteStr([s EXCEPT !.numbers = n.numbers],
                       <<"<sup class=\"footnote-reference\" id=\"r.">> \o e.arg
                          \o <<"\">", "<a href=\"#f.">>)
        s2 == Write(WriteStr(s1, EscapeHtml(e.arg)), <<"\">">>)
    IN  Write(WriteStr(s2, Decimal(n.number)), <<"</a>", "</sup>">>)

\* the body of the loop of run for one item of the filter
RunEvent(s, e, is_standalone) ==
    CASE e.type = "Start" -> StartTag(s, e, is_standalone)
      [] e.type = "End" -> EndTag(s, e)
      [] e.type = "Text" -> RunText(s, e)
      [] e.type = "Code" ->
            Write(WriteStr(Write(s, <<"<code>">>), EscapeHtml(e.arg)),
                  <<"</code>">>)
      [] e.type = "Html" -> Write(s, e.arg)
      [] e.type = "SoftBreak" -> WriteNewline(s)
      [] e.type = "HardBreak" -> Write(s, <<"<br />", "\n">>)
      [] e.type = "Rule" -> WriteBlock(s, <<"<hr />", "\n">>)
      [] e.type = "FootnoteReference" -> RunFootnoteReference(s, e)
      [] e.type = "TaskListMarker" ->
            IF e.kind = "true"
            THEN Write(s, <<"<input disabled=\"\" type=\"checkbox\" checked=\"\"/>",
                            "\n">>)
            ELSE Write(s, <<"<input disabled=\"\" type=\"checkbox\"/>", "\n">>)

(***************************************************************************)
(* Text helpers.  Offsets are byte offsets from 0, as in the code: the     *)
(* byte at offset i of text is text[i + 1].                                *)
(***************************************************************************)
Min(S) == CHOOSE i \in S : \A j \in S : i <= j

\* &text[n..] and &text[..n]
Drop(text, n) == SubSeq(text, n + 1, Len(text))
Take(text, n) == SubSeq(text, 1, n)

\* str::starts_with
StartsWith(text, prefix) ==
    Len(prefix) <= Len(text) /\ SubSeq(text, 1, Len(prefix)) = prefix

\* the offsets at which pat occurs in text
Occurrences(text, pat) ==
    { i \in 0..(Len(text) - Len(pat)) : SubSeq(text, i + 1, i + Len(pat)) = pat }

\* str::find: the offset of the first occurrence, or None
Find(text, pat) ==
    IF Occurrences(text, pat) = {} THEN [some |-> FALSE, index |-> 0]
    ELSE [some |-> TRUE, index |-> Min(Occurrences(text, pat))]

\* str::rfind: the offset of the last occurrence, or None
RFind(text, pat) ==
    IF Occurrences(text, pat) = {} THEN [some |-> FALSE, index |-> 0]
    ELSE [some |-> TRUE,
          index |-> CHOOSE i \in Occurrences(text, pat) :
                        \A j \in Occurrences(text, pat) : j <= i]

(***************************************************************************)
(* utils::parse_next_value.  The text of the model is ASCII, so the final  *)
(* String::from_utf8(value).ok() is always Some.                           *)
(***************************************************************************)
\* u8::is_ascii_whitespace
IsAsciiWhitespace(b) == b \in {" ", "\t", "\n", "\f", "\r"}

\* while offset < bytes.len() && bytes[offset].is_ascii_whitespace()
RECURSIVE SkipWhitespace(_, _)
SkipWhitespace(bytes, offset) ==
    IF offset < Len(bytes) /\ IsAsciiWhitespace(bytes[offset + 1])
    THEN SkipWhitespace(bytes, offset + 1)
    ELSE offset

\* a plausible slip: the first quote closes the value, escaped or not
RECURSIVE QuotedValueNoEscape(_, _, _, _)
QuotedValueNoEscape(bytes, index, value, escape) ==
    IF index >= Len(bytes) THEN [value |-> value, index |-> index]
    ELSE IF bytes[index + 1] = "\"" THEN [value |-> value, index |-> index + 1]
    ELSE IF bytes[index + 1] = "\\"
         THEN QuotedValueNoEscape(bytes, index + 1, value, TRUE)
    ELSE QuotedValueNoEscape(bytes, index + 1, Append(value, bytes[index + 1]),
                             FALSE)

\* the loop over a quoted value, from index on: the value and the end offset
RECURSIVE QuotedValue(_, _, _, _)
QuotedValue(bytes, index, value, escape) ==
    IF index >= Len(bytes) THEN [value |-> value, index |-> index]
    ELSE IF escape
         THEN QuotedValue(bytes, index + 1, Append(value, bytes[index + 1]), FALSE)
    ELSE IF bytes[index + 1] = "\\"
         THEN QuotedValue(bytes, index + 1, value, TRUE)
    ELSE IF bytes[index + 1] = "\""
         THEN [value |-> value, index |-> index + 1]
    ELSE QuotedValue(bytes, index + 1, Append(value, bytes[index + 1]), FALSE)

\* a plausible slip: a bare token is returned and the string is left at the
\* start of the token, not at its end
ParseNextValueStaying(string) ==
    LET offset == SkipWhitespace(string, 0)
    IN  IF offset = Len(string)
        THEN [some |-> FALSE, value |-> <<>>, rest |-> Drop(string, offset)]
        ELSE IF string[offset + 1] = "\""
        THEN LET q == QuotedValue(string, offset + 1, <<>>, FALSE)
             IN  [some |-> TRUE, value |-> q.value, rest |-> Drop(string, q.index)]
        ELSE LET ws == { i \in offset..(Len(string) - 1) :
                           IsAsciiWhitespace(string[i + 1]) }
                 end_offset == IF ws = {} THEN Len(string) ELSE Min(ws)
             IN  [some |-> TRUE,
                  value |-> SubSeq(string, offset + 1, end_offset),
                  rest |-> Drop(string, offset)]

\* parse_next_value(&mut string): the value returned, and string afterwards
ParseNextValue(string) ==
    LET offset == SkipWhitespace(string, 0)
    IN  IF offset = Len(string)
        THEN [some |-> FALSE, value |-> <<>>, rest |-> Drop(string, offset)]
        ELSE IF string[offset + 1] = "\""
        THEN LET q == QuotedValue(string, offset + 1, <<>>, FALSE)
             IN  [some |-> TRUE, value |-> q.value, rest |-> Drop(string, q.index)]
        ELSE LET ws == { i \in offset..(Len(string) - 1) :
                           IsAsciiWhitespace(string[i + 1]) }
                 end_offset == IF ws = {} THEN Len(string) ELSE Min(ws)
             IN  [some |-> TRUE,
                  value |-> SubSeq(string, offset + 1, end_offset),
                  rest |-> Drop(string, end_offset)]

(***************************************************************************)
(* MetaKey and PreprocessorRule                                            *)
(***************************************************************************)
\* MetaKey::new
MetaKeyNew(value) ==
    LET META_KEY_TITLE == <<"t", "i", "t", "l", "e">>
        META_KEY_CREATION_DATE == <<"d", "a", "t", "e">>
        META_KEY_MODIFIED_DATE == <<"u", "p", "d", "a", "t", "e", "d">>
        META_KEY_CATEGORY == <<"c", "a", "t", "e", "g", "o", "r", "y">>
        META_KEY_TAGS == <<"t", "a", "g", "s">>
        META_KEY_TEMPLATE == <<"t", "e", "m", "p", "l", "a", "t", "e">>
    IN  IF value = META_KEY_TITLE THEN [kind |-> "Title", name |-> <<>>]
        ELSE IF value = META_KEY_CREATION_DATE
             THEN [kind |-> "CreationDate", name |-> <<>>]
        ELSE IF value = META_KEY_MODIFIED_DATE
             THEN [kind |-> "ModifiedDate", name |-> <<>>]
        ELSE IF value = META_KEY_CATEGORY THEN [kind |-> "Category", name |-> <<>>]
        ELSE IF value = META_KEY_TAGS THEN [kind |-> "Tags", name |-> <<>>]
        ELSE IF value = META_KEY_TEMPLATE THEN [kind |-> "Template", name |-> <<>>]
        ELSE [kind |-> "Meta", name |-> value]

RULE_CONTENTS == <<"C", "O", "N", "T", "E", "N", "T", "S">>
RULE_CSS == <<"C", "S", "S">>
RULE_TOC == <<"T", "O", "C">>
RULE_LIST == <<"L", "I", "S", "T">>
RULE_META == <<"M", "E", "T", "A">>
RULE_INCLUDE == <<"I", "N", "C", "L", "U", "D", "E">>

U8_MAX == 255

NoSort == [some |-> FALSE, key |-> MetaKeyNew(<<>>), asc |-> FALSE]

\* a PreprocessorRule: every rule is a record of the same shape
Rule(kind, depth, path, sort_by, key) ==
    [kind |-> kind, depth |-> depth, path |-> path, sort_by |-> sort_by,
     key |-> key]

NoRule == [some |-> FALSE, rule |-> Rule("None", 0, <<>>, NoSort, <<>>)]
SomeRule(rule) == [some |-> TRUE, rule |-> rule]

\* the number a string of decimal digits stands for
RECURSIVE DecimalValue(_)
DecimalValue(digits) ==
    IF digits = <<>> THEN 0
    ELSE 10 * DecimalValue(Take(digits, Len(digits) - 1))
         + (CHOOSE d \in 0..9 : DigitOf(d) = digits[Len(digits)])

\* str::parse::<u8>: an optional '+', then digits, and no overflow
ParseU8(value) ==
    LET digits == IF value # <<>> /\ value[1] = "+" THEN Tail(value) ELSE value
    IN  IF /\ digits # <<>>
           /\ \A i \in DOMAIN digits : digits[i] \in DigitChars
           /\ DecimalValue(digits) <= U8_MAX
        THEN [ok |-> TRUE, value |-> DecimalValue(digits)]
        ELSE [ok |-> FALSE, value |-> 0]

\* RULE_TOC: the depth, u8::MAX when absent or not a number
TocDepth(parsing) ==
    LET v == ParseNextValue(parsing)
    IN  IF v.some /\ ParseU8(v.value).ok THEN ParseU8(v.value).value ELSE U8_MAX

\* RULE_LIST: while let Some(arg) = parse_next_value(parsing)
RECURSIVE ListArgs(_, _)
ListArgs(parsing, sort_by) ==
    LET arg == ParseNextValue(parsing)
        key == ParseNextValue(arg.rest)
        order == ParseNextValue(key.rest)
    IN  IF ~arg.some THEN sort_by
        ELSE IF arg.value = <<"s", "o", "r", "t">>
        THEN IF /\ key.some /\ order.some
                /\ order.value \in {<<"a", "s", "c">>, <<"d", "e", "s", "c">>}
             THEN ListArgs(order.rest,
                           [some |-> TRUE, key |-> MetaKeyNew(key.value),
                            asc |-> order.value = <<"a", "s", "c">>])
             ELSE ListArgs(order.rest, sort_by)
        ELSE ListArgs(arg.rest, sort_by)

\* PreprocessorRule::new
PreprocessorRuleNew(string) ==
    LET rule == ParseNextValue(string)
        arg == ParseNextValue(rule.rest)
    IN  IF ~rule.some THEN NoRule
        ELSE CASE rule.value = RULE_CONTENTS ->
                    SomeRule(Rule("Contents", 0, <<>>, NoSort, <<>>))
               [] rule.value = RULE_CSS ->
                    SomeRule(Rule("Css", 0, <<>>, NoSort, <<>>))
               [] rule.value = RULE_TOC ->
                    SomeRule(Rule("Toc", TocDepth(rule.rest), <<>>, NoSort, <<>>))
               [] rule.value = RULE_LIST ->
                    IF ~arg.some THEN NoRule
                    ELSE SomeRule(Rule("Listing", 0, arg.value,
                                       ListArgs(arg.rest, NoSort), <<>>))
               [] rule.value = RULE_META ->
                    IF ~arg.some THEN NoRule
                    ELSE SomeRule(Rule("Meta", 0, <<>>, NoSort, arg.value))
               [] rule.value = RULE_INCLUDE ->
                    IF ~arg.some THEN NoRule
                    ELSE SomeRule(Rule("Include", 0, arg.value, NoSort, <<>>))
               [] OTHER -> NoRule

(***************************************************************************)
(* HtmlTemplate::new                                                       *)
(***************************************************************************)
TEMPLATE_OPEN_MARKER == <<"<", "!", "-", "-", "P", "/">>
TEMPLATE_CLOSE_MARKER == <<"/", "P", "-", "-", ">">>

\* a plausible slip: the scan resumes right after the open marker
ResumeAfterOpenMarker(rule_start, rule_end) == rule_start

\* offset = rule_end + TEMPLATE_CLOSE_MARKER.len()
ResumeOffset(rule_start, rule_end) == rule_end + Len(TEMPLATE_CLOSE_MARKER)

\* a plausible slip: a rule that is not understood ends the scan
RECURSIVE ScanTemplateStopAtUnknown(_, _, _)
ScanTemplateStopAtUnknown(text, offset, found) ==
    LET open == Find(Drop(text, offset), TEMPLATE_OPEN_MARKER)
        rule_start == offset + open.index + Len(TEMPLATE_OPEN_MARKER)
        close == Find(Drop(text, rule_start), TEMPLATE_CLOSE_MARKER)
        rule_end == rule_start + close.index
        rule == PreprocessorRuleNew(SubSeq(text, rule_start + 1, rule_end))
    IN  IF ~open.some \/ ~close.some \/ ~rule.some THEN found
        ELSE ScanTemplateStopAtUnknown(
                 text, rule_end + Len(TEMPLATE_CLOSE_MARKER),
                 Append(found, [start |-> offset + open.index,
                                end |-> rule_end + Len(TEMPLATE_CLOSE_MARKER),
                                rule |-> rule.rule]))

\* the loop of new from offset on, with the replacements pushed so far
RECURSIVE ScanTemplate(_, _, _)
ScanTemplate(text, offset, found) ==
    LET open == Find(Drop(text, offset), TEMPLATE_OPEN_MARKER)
        rule_start == offset + open.index + Len(TEMPLATE_OPEN_MARKER)
        close == Find(Drop(text, rule_start), TEMPLATE_CLOSE_MARKER)
        rule_end == rule_start + close.index
        rule == PreprocessorRuleNew(SubSeq(text, rule_start + 1, rule_end))
    IN  IF ~open.some THEN found
        ELSE IF ~close.some THEN found
        ELSE ScanTemplate(text, ResumeOffset(rule_start, rule_end),
                          IF rule.some
                          THEN Append(found,
                                      [start |-> offset + open.index,
                                       end |-> rule_end + Len(TEMPLATE_CLOSE_MARKER),
                                       rule |-> rule.rule])
                          ELSE found)

\* the replacements of HtmlTemplate::new(html, path)
TemplateReplacements(text) == ScanTemplate(text, 0, <<>>)

(***************************************************************************)
(* Paths (std::path::Path): whether the path has a root, and its normal    *)
(* components.                                                             *)
(***************************************************************************)
RECURSIVE SplitOn(_, _, _)
SplitOn(text, sep, cur) ==
    IF text = <<>> THEN <<cur>>
    ELSE IF Head(text) = sep THEN <<cur>> \o SplitOn(Tail(text), sep, <<>>)
    ELSE SplitOn(Tail(text), sep, Append(cur, Head(text)))

\* Path::new(text): repeated separators and "." components are dropped
PathOf(text) ==
    LET IsComponent(c) == c # <<>> /\ c # <<".">>
    IN  [abs |-> StartsWith(text, <<"/">>),
         comps |-> SelectSeq(SplitOn(text, "/", <<>>), IsComponent)]

\* PathBuf::push(text): an absolute text replaces the path
PathPush(p, text) ==
    IF PathOf(text).abs THEN PathOf(text)
    ELSE [abs |-> p.abs, comps |-> p.comps \o PathOf(text).comps]

\* Path::parent: None for the root and for the empty path
PathParent(p) ==
    IF p.comps = <<>> THEN [some |-> FALSE, path |-> p]
    ELSE [some |-> TRUE,
          path |-> [abs |-> p.abs, comps |-> Take(p.comps, Len(p.comps) - 1)]]

\* Path::starts_with: component by component
PathStartsWith(p, base) ==
    p.abs = base.abs /\ StartsWith(p.comps, base.comps)

\* Path::extension: what follows the last dot of the file name, if the name
\* has a dot that is not its first byte
PathExtension(p) ==
    LET name == p.comps[Len(p.comps)]
        dot == RFind(name, <<".">>)
    IN  IF p.comps = <<>> \/ name = <<".", ".">> THEN [some |-> FALSE, ext |-> <<>>]
        ELSE IF ~dot.some \/ dot.index = 0 THEN [some |-> FALSE, ext |-> <<>>]
        ELSE [some |-> TRUE, ext |-> Drop(name, dot.index + 1)]

\* utils::get_abs_path(root, path, value), None standing for the panic of
\* path.parent().unwrap()
GetAbsPath(root, path, value) ==
    IF StartsWith(value, <<"/">>)
    THEN [some |-> TRUE, path |-> PathPush(root, Tail(value))]
    ELSE IF ~PathParent(path).some THEN [some |-> FALSE, path |-> path]
    ELSE [some |-> TRUE, path |-> PathPush(PathParent(path).path, value)]

\* utils::get_relative_uri, None standing for the panic of the slice
\* uri[last_shared_slash + 1..] on an empty uri
GetRelativeUri(relative_to, uri) ==
    LET Get(text, i) == IF i < Len(text) THEN <<text[i + 1]>> ELSE <<>>
        upto == IF Len(relative_to) > Len(uri) THEN Len(relative_to) ELSE Len(uri)
        diffs == { i \in 0..(upto - 1) : Get(relative_to, i) # Get(uri, i) }
        \* where the loop stops, and count_after
        seen == IF diffs = {} THEN upto ELSE Min(diffs)
        count_after == IF diffs = {} THEN Len(relative_to) ELSE Min(diffs)
        slashes == { i \in 0..(seen - 1) : i < Len(uri) /\ uri[i + 1] = "/" }
        last_shared_slash ==
            IF slashes = {} THEN 0
            ELSE CHOOSE i \in slashes : \A j \in slashes : j <= i
        up_count == Cardinality({ i \in count_after..(Len(relative_to) - 1) :
                                    relative_to[i + 1] = "/" })
    IN  IF last_shared_slash + 1 > Len(uri) THEN [some |-> FALSE, uri |-> <<>>]
        ELSE [some |-> TRUE,
              uri |-> Flatten([k \in 1..up_count |-> <<"..", "/">>])
                      \o Drop(uri, last_shared_slash + 1)]

(***************************************************************************)
(* Posts, as HtmlTemplate::apply reads them, and the site around them.     *)
(***************************************************************************)
Root == PathOf(<<"/", "r">>)

PostA ==
    [markdown |-> <<StartEv("Heading", <<"1">>, <<>>, ""), TextEv(<<"x">>),
                    EndEv("Heading", <<"1">>, <<>>, ""),
                    StartEv("Heading", <<"2">>, <<>>, ""), TextEv(<<"X">>),
                    EndEv("Heading", <<"2">>, <<>>, ""),
                    StartParagraph, TextEv(<<"t", "<">>), EndParagraph>>,
     uri |-> <<"/", "a", "/", "p">>,
     path |-> PathOf(<<"/", "r", "/", "a", "/", "p", ".", "m", "d">>),
     toc |-> <<[heading |-> <<"A">>, depth |-> 1], [heading |-> <<"B">>, depth |-> 2], [heading |-> <<"C">>, depth |-> 1]>>,
     meta |-> (<<"k">> :> <<"v">>),
     title |-> <<"b">>, date |-> 2, updated |-> 3, category |-> <<"c">>,
     tags |-> <<<<"t">>>>, template |-> [some |-> FALSE, value |-> <<>>]]

PostC ==
    [markdown |-> <<>>,
     uri |-> <<"/", "b", "/", "s">>,
     path |-> PathOf(<<"/", "r", "/", "b", "/", "s", ".", "m", "d">>),
     toc |-> <<>>,
     meta |-> (<<"j">> :> <<"u">>),
     title |-> <<"b">>, date |-> 1, updated |-> 1, category |-> <<>>,
     tags |-> <<<<"t">>, <<"u">>>>, template |-> [some |-> FALSE, value |-> <<>>]]

\* files: the posts of the site, in the order of the scan
AllPosts ==
    LET PostB ==
        [markdown |-> <<StartParagraph, TextEv(<<"t">>), EndParagraph>>,
         uri |-> <<"/", "a", "/", "q">>,
         path |-> PathOf(<<"/", "r", "/", "a", "/", "q", ".", "m", "d">>),
         toc |-> <<[heading |-> <<"D">>, depth |-> 3], [heading |-> <<"E">>, depth |-> 1]>>,
         meta |-> (<<"k">> :> <<>>) @@ (<<"j">> :> <<"w", "w">>),
         title |-> <<"a">>, date |-> 1, updated |-> 3, category |-> <<"c">>,
         tags |-> <<>>, template |-> [some |-> TRUE, value |-> <<"t">>]]
    IN  <<PostA, PostB, PostC>>

\* css_files: the URIs of the style sheets of the site
CssFiles == << <<"/", "s", ".", "c", "s", "s">>,
               <<"/", "a", "/", "s", ".", "c", "s", "s">>,
               <<"/", "b", "/", "t", ".", "c", "s", "s">> >>

\* the files fs::read_to_string can read, the path and the text of each:
\* a file with a raw extension and a file with no extension next to the
\* posts A and B, and a file with another extension in the root
IncludedFiles ==
    (PathOf(<<"/", "r", "/", "a", "/", "f", ".", "h", "t", "m", "l">>)
        :> <<"<", "b", ">">>)
    @@ (PathOf(<<"/", "r", "/", "n", ".", "t", "x", "t">>) :> <<"1", "<", "2">>)
    @@ (PathOf(<<"/", "r", "/", "a", "/", "n">>) :> <<"x">>)

FsEmpty == [p \in DOMAIN IncludedFiles |-> [some |-> FALSE, text |-> <<>>]]
FsFull == [p \in DOMAIN IncludedFiles |-> [some |-> TRUE, text |-> IncludedFiles[p]]]

\* fs::read_to_string(path)
ReadToString(fs, path) ==
    IF path \in DOMAIN fs THEN fs[path] ELSE [some |-> FALSE, text |-> <<>>]

\* INCLUDE_RAW_EXTENSIONS: the allow-list of extensions inserted verbatim
INCLUDE_RAW_EXTENSIONS == { <<"h", "t", "m", "l">>, <<"h", "t", "m">> }

(***************************************************************************)
(* The value of a rule.  A value is [status, value]: status is "Ok",       *)
(* "Skip" (the continue of a failed Include) or "Panic" (an unwrap of None *)
(* or a slice out of range).                                               *)
(***************************************************************************)
OkValue(value) == [status |-> "Ok", value |-> value]
PanicValue == [status |-> "Panic", value |-> <<>>]

\* HyperlinkHeadings::next, run over the whole event sequence
RECURSIVE AdaptorRun(_, _)
AdaptorRun(evs, ids) ==
    IF evs = <<>> THEN <<>>
    ELSE IF evs[1].type = "Start" /\ evs[1].tag = "Heading"
    THEN IF Len(evs) = 1 THEN <<>>
         ELSE IF evs[2].type = "Text"
         THEN LET id == AdaptorHeadingId(ids, evs[2].arg)
              IN  <<Ev("Html", "",
                       <<"<h">> \o evs[1].arg \o <<" id=\"">> \o id \o <<"\">">>,
                       <<>>, ""),
                    evs[2]>> \o AdaptorRun(Drop(evs, 2), ids \cup {id})
         ELSE <<evs[1], evs[2]>> \o AdaptorRun(Drop(evs, 2), ids)
    ELSE <<evs[1]>> \o AdaptorRun(Tail(evs), ids)

\* pulldown_cmark::html::push_html on paragraphs, headings, text and html
RECURSIVE CmarkPushHtml(_, _, _)
CmarkPushHtml(evs, res, newline) ==
    IF evs = <<>> THEN res
    ELSE LET e == Head(evs)
             lead == IF newline THEN <<>> ELSE <<"\n">>
         IN  CASE e.type = "Start" /\ e.tag = "Paragraph" ->
                    CmarkPushHtml(Tail(evs), res \o lead \o <<"<p>">>, FALSE)
               [] e.type = "Start" /\ e.tag = "Heading" ->
                    CmarkPushHtml(Tail(evs),
                                  res \o lead \o <<"<h">> \o e.arg \o <<">">>,
                                  FALSE)
               [] e.type = "End" /\ e.tag = "Paragraph" ->
                    CmarkPushHtml(Tail(evs), res \o <<"</p>", "\n">>, TRUE)
               [] e.type = "End" /\ e.tag = "Heading" ->
                    CmarkPushHtml(Tail(evs),
                                  res \o <<"</h">> \o e.arg \o <<">", "\n">>,
                                  TRUE)
               [] e.type = "Text" ->
                    CmarkPushHtml(Tail(evs), res \o EscapeHtml(e.arg),
                                  EndsWithNewline(e.arg))
               [] e.type = "Html" ->
                    CmarkPushHtml(Tail(evs), res \o e.arg,
                                  IF e.arg = <<>> THEN newline
                                  ELSE EndsWithNewline(e.arg))

\* PreprocessorRule::Contents
ContentsValue(post) ==
    OkValue(CmarkPushHtml(AdaptorRun(post.markdown, {}), <<>>, TRUE))

\* PreprocessorRule::Css: for css in css_files
\* a plausible slip: each tag is put in front of the ones written before
RECURSIVE CssValuePrepends(_, _, _)
CssValuePrepends(post, css_files, res) ==
    IF css_files = <<>> THEN OkValue(res)
    ELSE LET css == Head(css_files)
             slash == RFind(css, <<"/">>)
         IN  IF ~slash.some THEN PanicValue
             ELSE CssValuePrepends(
                      post, Tail(css_files),
                      IF StartsWith(post.uri, Take(css, slash.index))
                      THEN <<"<link rel=\"stylesheet\" type=\"text/css\" href=\"">>
                           \o css \o <<"\">">> \o res
                      ELSE res)

RECURSIVE CssValue(_, _, _)
CssValue(post, css_files, res) ==
    IF css_files = <<>> THEN OkValue(res)
    ELSE LET css == Head(css_files)
             slash == RFind(css, <<"/">>)
         IN  IF ~slash.some THEN PanicValue
             ELSE CssValue(post, Tail(css_files),
                           IF StartsWith(post.uri, Take(css, slash.index))
                           THEN res
                                \o <<"<link rel=\"stylesheet\" type=\"text/css\" href=\"">>
                                \o css \o <<"\">">>
                           ELSE res)

Repeat(token, n) == [k \in 1..n |-> token]

\* a plausible slip: an entry that is too deep still moves cur_depth
RECURSIVE TocValueCountsSkipped(_, _, _, _)
TocValueCountsSkipped(toc, max_depth, cur_depth, res) ==
    IF toc = <<>> THEN OkValue(res \o Repeat("</ul>", cur_depth))
    ELSE LET depth == Head(toc).depth
         IN  TocValueCountsSkipped(
                 Tail(toc), max_depth, depth,
                 IF depth > max_depth THEN res
                 ELSE res
                      \o (IF cur_depth < depth
                          THEN Repeat("<ul>", depth - cur_depth)
                          ELSE Repeat("</ul>", cur_depth - depth))
                      \o <<"<li>">> \o Head(toc).heading \o <<"</li>">>)

\* a plausible slip: the lists left open after the last entry stay open
RECURSIVE TocValueNoFinalClose(_, _, _, _)
TocValueNoFinalClose(toc, max_depth, cur_depth, res) ==
    IF toc = <<>> THEN OkValue(res)
    ELSE LET depth == Head(toc).depth
         IN  IF depth > max_depth
             THEN TocValueNoFinalClose(Tail(toc), max_depth, cur_depth, res)
             ELSE TocValueNoFinalClose(
                      Tail(toc), max_depth, depth,
                      res
                      \o (IF cur_depth < depth
                          THEN Repeat("<ul>", depth - cur_depth)
                          ELSE Repeat("</ul>", cur_depth - depth))
                      \o <<"<li>">> \o Head(toc).heading \o <<"</li>">>)

\* PreprocessorRule::Toc: for (heading, depth) in md.toc.iter()
RECURSIVE TocValue(_, _, _, _)
TocValue(toc, max_depth, cur_depth, res) ==
    IF toc = <<>> THEN OkValue(res \o Repeat("</ul>", cur_depth))
    ELSE LET depth == Head(toc).depth
         IN  IF depth > max_depth
             THEN TocValue(Tail(toc), max_depth, cur_depth, res)
             ELSE TocValue(Tail(toc), max_depth, depth,
                           res
                           \o (IF cur_depth < depth
                               THEN Repeat("<ul>", depth - cur_depth)
                               ELSE Repeat("</ul>", cur_depth - depth))
                           \o <<"<li>">> \o Head(toc).heading \o <<"</li>">>)

\* the bytes of the model in the order of their codes
Codes(text) ==
    LET AsciiOrder == <<"/", "<", "A", "B", "C", "a", "b", "c", "t", "u", "v", "w">>
    IN  [i \in 1..Len(text) |->
            CHOOSE code \in DOMAIN AsciiOrder : AsciiOrder[code] = text[i]]

\* Ord::cmp on sequences: lexicographic
RECURSIVE SeqCmp(_, _)
SeqCmp(a, b) ==
    IF a = <<>> THEN (IF b = <<>> THEN "Equal" ELSE "Less")
    ELSE IF b = <<>> THEN "Greater"
    ELSE IF a[1] < b[1] THEN "Less"
    ELSE IF a[1] > b[1] THEN "Greater"
    ELSE SeqCmp(Tail(a), Tail(b))

\* a plausible slip: None compares greater than every Some
OptionCodesNoneLast(option) ==
    IF option.some THEN <<0>> \o Codes(option.value) ELSE <<1>>

\* an Option<String> as a sequence that compares as the option does
OptionCodes(option) ==
    IF option.some THEN <<1>> \o Codes(option.value) ELSE <<0>>

\* what the comparison of the sort closure compares, as a sequence of codes
SortKey(key, p) ==
    CASE key.kind = "Title" -> Codes(p.title)
      [] key.kind = "CreationDate" -> <<p.date>>
      [] key.kind = "ModifiedDate" -> <<p.updated>>
      [] key.kind = "Category" -> Codes(p.category)
      [] key.kind = "Tags" ->
            Flatten([i \in 1..Len(p.tags) |-> Codes(p.tags[i]) \o <<0>>])
      [] key.kind = "Template" -> OptionCodes(p.template)
      [] key.kind = "Meta" ->
            OptionCodes(IF key.name \in DOMAIN p.meta
                        THEN [some |-> TRUE, value |-> p.meta[key.name]]
                        ELSE [some |-> FALSE, value |-> <<>>])

\* the closure of sorted_files.sort_by
PostOrdering(key, asc, a, b) ==
    LET ordering == SeqCmp(SortKey(key, a), SortKey(key, b))
    IN  IF asc THEN ordering
        ELSE CASE ordering = "Less" -> "Greater"
               [] ordering = "Greater" -> "Less"
               [] OTHER -> "Equal"

\* a plausible slip: an unstable sort, x goes before its equals
RECURSIVE InsertPostUnstable(_, _, _, _)
InsertPostUnstable(sorted, x, key, asc) ==
    IF sorted = <<>> THEN <<x>>
    ELSE IF PostOrdering(key, asc, Head(sorted), x) # "Less"
    THEN <<x>> \o sorted
    ELSE <<Head(sorted)>> \o InsertPostUnstable(Tail(sorted), x, key, asc)

\* slice::sort_by is stable: x goes behind everything not greater than it
RECURSIVE InsertPost(_, _, _, _)
InsertPost(sorted, x, key, asc) ==
    IF sorted = <<>> THEN <<x>>
    ELSE IF PostOrdering(key, asc, Head(sorted), x) = "Greater"
    THEN <<x>> \o sorted
    ELSE <<Head(sorted)>> \o InsertPost(Tail(sorted), x, key, asc)

RECURSIVE SortPosts(_, _, _)
SortPosts(files, key, asc) ==
    IF files = <<>> THEN <<>>
    ELSE InsertPost(SortPosts(Take(files, Len(files) - 1), key, asc),
                    files[Len(files)], key, asc)

\* for file in files: one item for every post under path
RECURSIVE ListItems(_, _, _, _)
ListItems(files, path, post, res) ==
    IF files = <<>> THEN OkValue(res \o <<"</ul>">>)
    ELSE LET file == Head(files)
             rel == GetRelativeUri(post.uri, file.uri)
         IN  IF ~PathStartsWith(file.path, path)
             THEN ListItems(Tail(files), path, post, res)
             ELSE IF ~rel.some THEN PanicValue
             ELSE ListItems(Tail(files), path, post,
                            res \o <<"<li><a href=\"">> \o rel.uri \o <<"\">">>
                            \o file.title \o <<"</a></li>">>)

\* a plausible slip: the slice of the caller is sorted in place
SortedInPlace(rule, files) ==
    IF rule.sort_by.some
    THEN SortPosts(files, rule.sort_by.key, rule.sort_by.asc)
    ELSE files

\* what the slice lent as files holds after the Listing rule: the sort is
\* done on sorted_files, the vector made by files.to_vec(), and files is
\* only read
FilesAfterListing(rule, files) == files

\* PreprocessorRule::Listing
ListingValue(rule, root, post, files) ==
    LET path == GetAbsPath(root, post.path, rule.path)
        sorted == IF rule.sort_by.some
                  THEN SortPosts(files, rule.sort_by.key, rule.sort_by.asc)
                  ELSE files
    IN  IF ~path.some THEN PanicValue
        ELSE ListItems(sorted, path.path, post, <<"<ul>">>)

\* PreprocessorRule::Meta
MetaValue(rule, post) ==
    OkValue(IF rule.key \in DOMAIN post.meta THEN post.meta[rule.key] ELSE <<>>)

\* a plausible slip: a file that cannot be read ends the whole apply
IncludeValueFailing(rule, root, post, fs) ==
    LET path == GetAbsPath(root, post.path, rule.path)
        file == ReadToString(fs, path.path)
        ext == PathExtension(path.path)
        AsciiLowercase(text) ==
            Flatten([i \in 1..Len(text) |-> ToLowercase(text[i])])
    IN  IF ~path.some THEN PanicValue
        ELSE IF ~file.some THEN PanicValue
        ELSE IF ~ext.some THEN PanicValue
        ELSE IF AsciiLowercase(ext.ext) \in INCLUDE_RAW_EXTENSIONS
        THEN OkValue(file.text)
        ELSE OkValue(EscapeHtml(file.text))

\* a plausible slip: a file that cannot be read gives an empty value
IncludeValueBlank(rule, root, post, fs) ==
    LET path == GetAbsPath(root, post.path, rule.path)
        file == ReadToString(fs, path.path)
        ext == PathExtension(path.path)
        AsciiLowercase(text) ==
            Flatten([i \in 1..Len(text) |-> ToLowercase(text[i])])
    IN  IF ~path.some THEN PanicValue
        ELSE IF ~file.some THEN OkValue(<<>>)
        ELSE IF ~ext.some THEN PanicValue
        ELSE IF AsciiLowercase(ext.ext) \in INCLUDE_RAW_EXTENSIONS
        THEN OkValue(file.text)
        ELSE OkValue(EscapeHtml(file.text))

\* PreprocessorRule::Include
IncludeValue(rule, root, post, fs) ==
    LET path == GetAbsPath(root, post.path, rule.path)
        file == ReadToString(fs, path.path)
        ext == PathExtension(path.path)
        \* u8::to_ascii_lowercase over the extension
        AsciiLowercase(text) ==
            Flatten([i \in 1..Len(text) |-> ToLowercase(text[i])])
    IN  IF ~path.some THEN PanicValue
        ELSE IF ~file.some THEN [status |-> "Skip", value |-> <<>>]
        ELSE IF ~ext.some THEN PanicValue
        ELSE IF AsciiLowercase(ext.ext) \in INCLUDE_RAW_EXTENSIONS
        THEN OkValue(file.text)
        ELSE OkValue(EscapeHtml(file.text))

\* let value = match replacement.rule { .. }
RuleValue(rule, root, post, files, css_files, fs) ==
    CASE rule.kind = "Contents" -> ContentsValue(post)
      [] rule.kind = "Css" -> CssValue(post, css_files, <<>>)
      [] rule.kind = "Toc" -> TocValue(post.toc, rule.depth, 0, <<>>)
      [] rule.kind = "Listing" -> ListingValue(rule, root, post, files)
      [] rule.kind = "Meta" -> MetaValue(rule, post)
      [] rule.kind = "Include" -> IncludeValue(rule, root, post, fs)

(***************************************************************************)
(* The template texts: a few fragments put one after the other.  Among     *)
(* them are whole directives, a directive with an unknown rule, one with   *)
(* its argument missing, and the two markers on their own, so that markers *)
(* also nest and go unclosed.                                              *)
(***************************************************************************)
TemplateFrags ==
    LET
        LiteralText ==
            <<"a">>

        OpenMarkerOnly ==
            <<"<", "!", "-", "-", "P", "/">>

        CloseMarkerOnly ==
            <<"/", "P", "-", "-", ">">>

        CssText ==
            <<" ", "C", "S", "S", " ">>

        MetaDirective ==
            <<"<", "!", "-", "-", "P", "/", "M", "E", "T", "A", " ", "k", "/", "P",
              "-", "-", ">">>

        IncludeDirective ==
            <<"<", "!", "-", "-", "P", "/", " ", "I", "N", "C", "L", "U", "D", "E",
              " ", "f", ".", "h", "t", "m", "l", " ", "/", "P", "-", "-", ">">>

        \* a path from the root
        IncludeFromRoot ==
            <<"<", "!", "-", "-", "P", "/", "I", "N", "C", "L", "U", "D", "E", " ",
              "/", "n", ".", "t", "x", "t", " ", "/", "P", "-", "-", ">">>

        \* a file name with no extension
        IncludeBare ==
            <<"<", "!", "-", "-", "P", "/", "I", "N", "C", "L", "U", "D", "E", " ",
              "n", " ", "/", "P", "-", "-", ">">>

        TocDirective ==
            <<"<", "!", "-", "-", "P", "/", "T", "O", "C", " ", "1", "/", "P", "-",
              "-", ">">>

        ListDirective ==
            <<"<", "!", "-", "-", "P", "/", "L", "I", "S", "T", " ", "/", "a", " ",
              "s", "o", "r", "t", " ", "t", "i", "t", "l", "e", " ", "a", "s", "c",
              "/", "P", "-", "-", ">">>

        ContentsDirective ==
            <<"<", "!", "-", "-", "P", "/", "C", "O", "N", "T", "E", "N", "T", "S",
              "/", "P", "-", "-", ">">>

        UnknownDirective ==
            <<"<", "!", "-", "-", "P", "/", "B", "A", "D", "/", "P", "-", "-", ">">>

        MetaWithoutKey ==
            <<"<", "!", "-", "-", "P", "/", "M", "E", "T", "A", "/", "P", "-", "-",
              ">">>

        \* a directive with an open marker and a second rule inside its rule text
        NestedDirective == OpenMarkerOnly \o CssText \o MetaDirective

        \* two directives with nothing between them
        AdjacentDirectives == IncludeDirective \o MetaDirective

        \* a directive that is not understood between two that are
        UnknownBetween == MetaDirective \o UnknownDirective \o TocDirective
    IN  { LiteralText,
          OpenMarkerOnly,
          CloseMarkerOnly,
          CssText,
          MetaDirective,
          IncludeDirective,
          IncludeFromRoot,
          IncludeBare,
          TocDirective,
          ListDirective,
          ContentsDirective,
          UnknownDirective,
          MetaWithoutKey,
          NestedDirective,
          AdjacentDirectives,
          UnknownBetween }


(***************************************************************************)
(* HtmlTemplate::apply                                                     *)
(***************************************************************************)
\* replacements.sort_by_key(|r| r.range.start): a stable sort
RECURSIVE InsertByStart(_, _)
InsertByStart(sorted, r) ==
    IF sorted = <<>> THEN <<r>>
    ELSE IF Head(sorted).start > r.start THEN <<r>> \o sorted
    ELSE <<Head(sorted)>> \o InsertByStart(Tail(sorted), r)

RECURSIVE SortByStart(_)
SortByStart(reps) ==
    IF reps = <<>> THEN <<>>
    ELSE InsertByStart(SortByStart(Take(reps, Len(reps) - 1)), reps[Len(reps)])

\* a plausible slip: the replacements are walked from the lowest offset
ApplyOrderForward(sorted) == sorted

\* replacements.into_iter().rev()
ApplyOrder(sorted) == [i \in 1..Len(sorted) |-> sorted[Len(sorted) + 1 - i]]

\* String::replace_range(range, value), which panics on a range that does
\* not lie in the string
ReplaceRange(text, range_start, range_end, value) ==
    IF range_start <= range_end /\ range_end <= Len(text)
    THEN [status |-> "Ok",
          html |-> Take(text, range_start) \o value \o Drop(text, range_end)]
    ELSE [status |-> "Panic", html |-> text]

\* the for loop of apply over the replacements still to do
RECURSIVE ApplyLoop(_, _, _, _, _, _, _)
ApplyLoop(text, todo, root, post, files, css_files, fs) ==
    IF todo = <<>> THEN [status |-> "Ok", html |-> text]
    ELSE LET replacement == Head(todo)
             v == RuleValue(replacement.rule, root, post, files, css_files, fs)
             replaced == ReplaceRange(text, replacement.start, replacement.end,
                                      v.value)
         IN  CASE v.status = "Panic" -> [status |-> "Panic", html |-> text]
               [] v.status = "Skip" ->
                    ApplyLoop(text, Tail(todo), root, post, files, css_files, fs)
               [] OTHER ->
                    IF replaced.status = "Panic" THEN replaced
                    ELSE ApplyLoop(replaced.html, Tail(todo), root, post, files,
                                   css_files, fs)

\* HtmlTemplate::apply(root, md, files, css_files) on the template
\* [html, replacements], reading the files of fs
TemplateApply(template, root, post, files, css_files, fs) ==
    ApplyLoop(template.html, ApplyOrder(SortByStart(template.replacements)),
              root, post, files, css_files, fs)

\* what the slice lent as files holds when apply is over: no rule but
\* Listing touches files
RECURSIVE FilesAfterApply(_, _)
FilesAfterApply(todo, files) ==
    IF todo = <<>> THEN files
    ELSE FilesAfterApply(Tail(todo),
                         IF Head(todo).rule.kind = "Listing"
                         THEN FilesAfterListing(Head(todo).rule, files)
                         ELSE files)

(***************************************************************************)
(* The template engine: a template is loaded from a text, then applied to  *)
(* the posts of the site.                                                  *)
(***************************************************************************)
NotApplied ==
    [done |-> FALSE, post |-> PostA, files |-> <<>>, css_files |-> <<>>,
     fs |-> FsEmpty, status |-> "None", html |-> <<>>]

TemplateIdle ==
    /\ loaded = FALSE
    /\ html = <<>>
    /\ replacements = <<>>
    /\ applied = NotApplied
    /\ all_posts = AllPosts
    /\ apply_calls = <<>>

\* HtmlTemplate::from_string(text)
FromString(text) ==
    /\ ~loaded
    /\ loaded' = TRUE
    /\ html' = text
    /\ replacements' = TemplateReplacements(text)
    /\ UNCHANGED <<applied, all_posts, apply_calls, headingVars, filterVars,
                   writerVars, parseVars, siteVars>>

\* template.apply(root, post, files, css_files), with the files of fs on disk
Apply(post, css_files, fs) ==
    /\ loaded
    /\ LET r == TemplateApply([html |-> html, replacements |-> replacements],
                              Root, post, all_posts, css_files, fs)
       IN  applied' = [done |-> TRUE, post |-> post, files |-> all_posts,
                       css_files |-> css_files, fs |-> fs,
                       status |-> r.status, html |-> r.html]
    /\ all_posts' = FilesAfterApply(replacements, all_posts)
    /\ UNCHANGED <<loaded, html, replacements, apply_calls, headingVars, filterVars,
                   writerVars, parseVars, siteVars>>

(***************************************************************************)
(* Several calls of apply on one template, one replacement of one call per *)
(* step.  A call works on the text and on the replacement list it cloned   *)
(* when it began; apply borrows the template as &self.                     *)
(***************************************************************************)
\* a plausible slip: the replacement is made in the text of the template
HtmlWrittenBack(stored, working) == working

\* a plausible slip: the loop takes the replacements out of the template
ReplacementsTakenOut(stored, rest) == rest

\* self.html after html.replace_range(..): html is the clone of line 194
HtmlAfterReplace(stored, working) == stored

\* self.replacements after the loop took one: the loop walks the clone of
\* line 195
ReplacementsAfterTake(stored, rest) == stored

\* let mut html = self.html.clone(); let mut replacements =
\* self.replacements.clone(); replacements.sort_by_key(..)
BeginApply(post, fs) ==
    /\ loaded
    /\ Len(apply_calls) < MaxCalls
    /\ apply_calls' =
          Append(apply_calls,
                 [post |-> post, fs |-> fs, status |-> "Running", html |-> html,
                  todo |-> ApplyOrder(SortByStart(replacements))])
    /\ UNCHANGED <<loaded, html, replacements, applied, all_posts, headingVars,
                   filterVars, writerVars, parseVars, siteVars>>

\* one turn of the for loop of the t-th call, or its Ok(html) when no
\* replacement is left
ApplyStep(t) ==
    LET c == apply_calls[t]
        r == ApplyLoop(c.html, <<Head(c.todo)>>, Root, c.post, all_posts,
                       CssFiles, c.fs)
    IN  /\ c.status = "Running"
        /\ IF c.todo = <<>>
           THEN /\ apply_calls' = [apply_calls EXCEPT ![t].status = "Ok"]
                /\ UNCHANGED <<html, replacements, all_posts>>
           ELSE /\ apply_calls' =
                      [apply_calls EXCEPT
                         ![t] = IF r.status = "Panic"
                                THEN [c EXCEPT !.status = "Panic"]
                                ELSE [c EXCEPT !.html = r.html,
                                               !.todo = Tail(c.todo)]]
                /\ html' = HtmlAfterReplace(html, r.html)
                /\ replacements' = ReplacementsAfterTake(replacements, Tail(c.todo))
                /\ all_posts' = FilesAfterApply(<<Head(c.todo)>>, all_posts)
        /\ UNCHANGED <<loaded, applied, headingVars, filterVars, writerVars, parseVars, siteVars>>
(***************************************************************************)
(* parse_next_value called over and over on one string, as                 *)
(* PreprocessorRule::new and the test parse_value::multiple call it.       *)
(***************************************************************************)
ParseIdle ==
    /\ unparsed = <<>>
    /\ values = <<>>
    /\ parse_calls = <<>>

\* while let Some(value) = parse_next_value(string) { values.push(value) }
ParseNext ==
    /\ IF parse_calls = <<>> THEN TRUE ELSE parse_calls[Len(parse_calls)].some
    /\ LET r == ParseNextValue(unparsed)
       IN  /\ unparsed' = r.rest
           /\ values' = IF r.some THEN Append(values, r.value) ELSE values
           /\ parse_calls' = Append(parse_calls,
                                    [string |-> unparsed, some |-> r.some,
                                     value |-> r.value, rest |-> r.rest])
    /\ UNCHANGED <<headingVars, filterVars, writerVars, templateVars, siteVars>>

(***************************************************************************)
(* The components around the renderer, at rest: the post loader, the scan  *)
(* of the source directory, the plan of the blog and its execution.        *)
(***************************************************************************)
SiteIdle ==
    /\ source = <<>> /\ metadata = <<>> /\ meta_lines = <<>> /\ loaded_post = <<>>
    /\ tree = <<>> /\ scan = <<>>
    /\ blog = <<>> /\ actions = <<>>
    /\ disk = <<>> /\ executed = <<>> /\ result = "Idle"

(***************************************************************************)
(* Post::from_sources.  The markdown of a post is a record: the language   *)
(* of the fenced code block it starts with ("none" when it starts with     *)
(* something else), the lines between the fences, and the events of what   *)
(* follows.  Dates are triples <<year, month, day>>.                       *)
(***************************************************************************)
\* str::trim, on the blanks of the model
Trim(s) ==
    LET others == { i \in DOMAIN s : ~IsAsciiWhitespace(s[i]) }
    IN  IF others = {} THEN <<>>
        ELSE SubSeq(s, Min(others), CHOOSE i \in others : \A j \in others : j <= i)

\* parse_date: NaiveDate::parse_from_str(date, "%Y-%m-%d"), which lets
\* blanks go before the year and nothing after the day
ParseDate(date) ==
    LET others == { i \in DOMAIN date : ~IsAsciiWhitespace(date[i]) }
        d == IF others = {} THEN <<>> ELSE SubSeq(date, Min(others), Len(date))
        shaped == /\ Len(d) = 10
                  /\ d[5] = "-" /\ d[8] = "-"
                  /\ \A i \in {1, 2, 3, 4, 6, 7, 9, 10} : d[i] \in DigitChars
        month == DecimalValue(SubSeq(d, 6, 7))
        day == DecimalValue(SubSeq(d, 9, 10))
    IN  IF shaped /\ month \in 1..12 /\ day \in 1..28
        THEN [ok |-> TRUE,
              date |-> <<DecimalValue(SubSeq(d, 1, 4)), month, day>>]
        ELSE [ok |-> FALSE, date |-> <<>>]

\* a plausible slip: a date that cannot be read sets the field to the day
\* the program runs
MetaLineAppliedResetting(m, line) ==
    LET colon == Find(line, <<":">>)
        key == Flatten([i \in 1..colon.index |-> ToLowercase(line[i])])
        value == Drop(line, colon.index + 1)
        today == <<2026, 1, 1>>
    IN  IF ~colon.some THEN m
        ELSE CASE key = <<"t", "i", "t", "l", "e">> ->
                    [m EXCEPT !.title = <<Trim(value)>>]
               [] key = <<"p", "a", "t", "h">> ->
                    [m EXCEPT !.path = Trim(value)]
               [] key \in { <<"c", "r", "e", "a", "t", "e", "d">>,
                            <<"p", "u", "b", "l", "i", "s", "h", "e", "d">> } ->
                    [m EXCEPT !.created = IF ParseDate(value).ok
                                          THEN ParseDate(value).date ELSE today]
               [] key \in { <<"m", "o", "d", "i", "f", "i", "e", "d">>,
                            <<"u", "p", "d", "a", "t", "e", "d">> } ->
                    [m EXCEPT !.modified = IF ParseDate(value).ok
                                           THEN ParseDate(value).date ELSE today]
               [] OTHER -> m

\* Metadata::update_from_meta_contents, the body of the loop for one line
MetaLineApplied(m, line) ==
    LET colon == Find(line, <<":">>)
        key == Flatten([i \in 1..colon.index |-> ToLowercase(line[i])])
        value == Drop(line, colon.index + 1)
    IN  IF ~colon.some THEN m
        ELSE CASE key = <<"t", "i", "t", "l", "e">> ->
                    [m EXCEPT !.title = <<Trim(value)>>]
               [] key = <<"p", "a", "t", "h">> ->
                    [m EXCEPT !.path = Trim(value)]
               [] key \in { <<"c", "r", "e", "a", "t", "e", "d">>,
                            <<"p", "u", "b", "l", "i", "s", "h", "e", "d">> } ->
                    IF ParseDate(value).ok
                    THEN [m EXCEPT !.created = ParseDate(value).date] ELSE m
               [] key \in { <<"m", "o", "d", "i", "f", "i", "e", "d">>,
                            <<"u", "p", "d", "a", "t", "e", "d">> } ->
                    IF ParseDate(value).ok
                    THEN [m EXCEPT !.modified = ParseDate(value).date] ELSE m
               [] OTHER -> m

\* one turn of the loop of update_from_meta_contents
UpdateFromMetaLine ==
    /\ loaded_post = <<>>
    /\ meta_lines # <<>>
    /\ metadata' = MetaLineApplied(metadata, Head(meta_lines))
    /\ meta_lines' = Tail(meta_lines)
    /\ UNCHANGED <<source, loaded_post, tree, scan, blog, actions, disk, executed, result,
                   headingVars, filterVars, writerVars, templateVars, parseVars>>

\* the rest of update_from_contents and of from_sources: the title is taken
\* from the first text after a level one heading when the meta block gave
\* none, the meta block is cut out of the markdown, and the Post is built
FromSourcesReturn ==
    /\ source # <<>>
    /\ loaded_post = <<>>
    /\ meta_lines = <<>>
    /\ LET body == source.body
           waits == { i \in DOMAIN body :
                        /\ body[i].type = "Text"
                        /\ \E j \in 1..(i - 1) :
                              /\ body[j].type = "Start" /\ body[j].tag = "Heading"
                              /\ body[j].arg = <<"1">> }
           title == IF metadata.title # <<>> THEN metadata.title
                    ELSE IF waits # {} THEN <<body[Min(waits)].arg>>
                    ELSE <<>>
       IN  loaded_post' = <<[markdown |-> IF source.fence = "meta"
                                   THEN [fence |-> "none", lines |-> <<>>,
                                         body |-> body]
                                   ELSE [fence |-> source.fence,
                                         lines |-> source.lines, body |-> body],
                      path |-> metadata.path,
                      title |-> IF title # <<>> THEN title[1]
                                ELSE <<"(", "n", "o", " ", "t", "i", "t", "l", "e", ")">>,
                      modified |-> metadata.modified,
                      created |-> metadata.created]>>
    /\ UNCHANGED <<source, metadata, meta_lines, tree, scan, blog, actions, disk,
                   executed, result,
                   headingVars, filterVars, writerVars, templateVars, parseVars>>

(***************************************************************************)
(* Scan::new (main.rs).  A path is a record of the directory it is in and  *)
(* its file name; tree gives the entries read_dir returns for a directory, *)
(* each with its path, whether it is a directory and, for a markdown file, *)
(* the template path MdFile::new finds in its metadata (<<>> for none).    *)
(***************************************************************************)
\* while let Some(src) = pending.pop(): read_dir of the next directory
ScanPop ==
    /\ scan # <<>>
    /\ scan.stage = "Walk"
    /\ scan.entries = <<>>
    /\ scan.pending # <<>>
    /\ LET src == scan.pending[Len(scan.pending)]
       IN  scan' = [scan EXCEPT !.pending = Take(scan.pending, Len(scan.pending) - 1),
                                !.entries = tree[src]]
    /\ UNCHANGED <<source, metadata, meta_lines, loaded_post, tree, blog, actions,
                   disk, executed, result,
                   headingVars, filterVars, writerVars, templateVars, parseVars>>

\* the body of the for loop over the entries of a directory
ScanEntry ==
    /\ scan # <<>>
    /\ scan.stage = "Walk"
    /\ scan.entries # <<>>
    /\ LET entry == Head(scan.entries)
           filename == entry.path.name
           dot == RFind(filename, <<".">>)
           ext_idx == IF dot.some THEN dot.index + 1 ELSE Len(filename)
           ext == Flatten([i \in 1..(Len(filename) - ext_idx) |->
                              ToLowercase(filename[ext_idx + i])])
           rest == [scan EXCEPT !.entries = Tail(scan.entries)]
       IN  scan' =
             IF entry.is_dir
             THEN [rest EXCEPT !.pending = Append(@, entry.path.name),
                               !.dirs_to_create = Append(@, entry.path)]
             ELSE LET s1 == IF ext = <<"c", "s", "s">>
                            THEN [rest EXCEPT !.css_files = Append(@, entry.path)]
                            ELSE rest
                  IN  IF ext # <<"m", "d">>
                      THEN [s1 EXCEPT !.files_to_copy = Append(@, entry.path)]
                      ELSE [s1 EXCEPT
                              !.templates = @ \cup { entry.template[i] :
                                                       i \in DOMAIN entry.template },
                              !.md_files = Append(@, entry)]
    /\ UNCHANGED <<source, metadata, meta_lines, loaded_post, tree, blog, actions,
                   disk, executed, result,
                   headingVars, filterVars, writerVars, templateVars, parseVars>>

\* scan.files_to_copy.retain(|path| templates.contains(path))
ScanRetain ==
    /\ scan # <<>>
    /\ scan.stage = "Walk"
    /\ scan.entries = <<>>
    /\ scan.pending = <<>>
    /\ scan' = [scan EXCEPT
                  !.files_to_copy = SelectSeq(@, LAMBDA path : path \in scan.templates),
                  !.stage = "Done"]
    /\ UNCHANGED <<source, metadata, meta_lines, loaded_post, tree, blog, actions,
                   disk, executed, result,
                   headingVars, filterVars, writerVars, templateVars, parseVars>>

(***************************************************************************)
(* Blog::generate (blog.rs) and execute_fs_actions (fs_action.rs).  A path *)
(* is the sequence of its components, each a string.  The file system is   *)
(* a function from the paths that exist to "dir" or "file".                *)
(***************************************************************************)
\* the two names come from the crate root; only their being names matters
CSS_DIR_NAME == "css"
CSS_FILE_NAME == "style.css"

\* enum FsAction: Copy { source, dest }, DeleteDir { path, not_exists_ok,
\* recursive }, CreateDir { path, exists_ok }, WriteFile { path, content };
\* dest is held in path, and ok is not_exists_ok or exists_ok
FsAction(kind, path, src, ok, recursive, content) ==
    [kind |-> kind, path |-> path, source |-> src, ok |-> ok,
     recursive |-> recursive, content |-> content]

\* a plausible slip: the directory of a post is created before it is deleted
GenerateActionsCreateFirst(b, root) ==
    LET css_path == Append(root, CSS_DIR_NAME)
        css == IF b.css_path = <<>> THEN <<>>
               ELSE <<FsAction("DeleteDir", css_path, <<>>, TRUE, TRUE, <<>>),
                      FsAction("CreateDir", css_path, <<>>, FALSE, FALSE, <<>>),
                      FsAction("Copy", Append(css_path, CSS_FILE_NAME),
                               b.css_path[1], FALSE, FALSE, <<>>)>>
        Key(p) == <<p.modified, p.created>> \o Codes(p.title)
        RECURSIVE Insert(_, _)
        Insert(sorted, x) ==
            IF sorted = <<>> THEN <<x>>
            ELSE IF SeqCmp(Key(Head(sorted)), Key(x)) = "Less"
            THEN <<x>> \o sorted
            ELSE <<Head(sorted)>> \o Insert(Tail(sorted), x)
        RECURSIVE Sorted(_)
        Sorted(ps) == IF ps = <<>> THEN <<>>
                      ELSE Insert(Sorted(Take(ps, Len(ps) - 1)), ps[Len(ps)])
        PostActions(p) ==
            LET post_dir == Append(root, p.path)
            IN  <<FsAction("CreateDir", post_dir, <<>>, FALSE, FALSE, <<>>),
                  FsAction("DeleteDir", post_dir, <<>>, TRUE, TRUE, <<>>),
                  FsAction("WriteFile", Append(post_dir, "index.html"), <<>>,
                           FALSE, FALSE, p.title)>>
                \o [i \in DOMAIN p.assets |->
                      FsAction("Copy",
                               Append(post_dir, p.assets[i][Len(p.assets[i])]),
                               p.assets[i], FALSE, FALSE, <<>>)]
        sorted_posts == Sorted(b.posts)
    IN  IF \E i \in DOMAIN b.posts : b.posts[i].markdown = <<>>
        THEN [status |-> "Panic", actions |-> <<>>]
        ELSE [status |-> "Ok",
              actions |->
                  css \o Flatten([i \in DOMAIN sorted_posts |->
                                     PostActions(sorted_posts[i])])
                      \o <<FsAction("WriteFile", Append(root, "index.html"), <<>>,
                                    FALSE, FALSE, <<"listing">>),
                           FsAction("WriteFile", Append(root, "atom.xml"), <<>>,
                                    FALSE, FALSE, <<"feed">>)>>]

\* Blog::generate_actions(root): the plan, or the panic of Post::write_html
\* on a post whose markdown has no element
GenerateActions(b, root) ==
    LET css_path == Append(root, CSS_DIR_NAME)
        css == IF b.css_path = <<>> THEN <<>>
               ELSE <<FsAction("DeleteDir", css_path, <<>>, TRUE, TRUE, <<>>),
                      FsAction("CreateDir", css_path, <<>>, FALSE, FALSE, <<>>),
                      FsAction("Copy", Append(css_path, CSS_FILE_NAME),
                               b.css_path[1], FALSE, FALSE, <<>>)>>
        Key(p) == <<p.modified, p.created>> \o Codes(p.title)
        RECURSIVE Insert(_, _)
        Insert(sorted, x) ==
            IF sorted = <<>> THEN <<x>>
            ELSE IF SeqCmp(Key(Head(sorted)), Key(x)) = "Less"
            THEN <<x>> \o sorted
            ELSE <<Head(sorted)>> \o Insert(Tail(sorted), x)
        RECURSIVE Sorted(_)
        Sorted(ps) == IF ps = <<>> THEN <<>>
                      ELSE Insert(Sorted(Take(ps, Len(ps) - 1)), ps[Len(ps)])
        PostActions(p) ==
            LET post_dir == Append(root, p.path)
            IN  <<FsAction("DeleteDir", post_dir, <<>>, TRUE, TRUE, <<>>),
                  FsAction("CreateDir", post_dir, <<>>, FALSE, FALSE, <<>>),
                  FsAction("WriteFile", Append(post_dir, "index.html"), <<>>,
                           FALSE, FALSE, p.title)>>
                \o [i \in DOMAIN p.assets |->
                      FsAction("Copy",
                               Append(post_dir, p.assets[i][Len(p.assets[i])]),
                               p.assets[i], FALSE, FALSE, <<>>)]
        sorted_posts == Sorted(b.posts)
    IN  IF \E i \in DOMAIN b.posts : b.posts[i].markdown = <<>>
        THEN [status |-> "Panic", actions |-> <<>>]
        ELSE [status |-> "Ok",
              actions |->
                  css \o Flatten([i \in DOMAIN sorted_posts |->
                                     PostActions(sorted_posts[i])])
                      \o <<FsAction("WriteFile", Append(root, "index.html"), <<>>,
                                    FALSE, FALSE, <<"listing">>),
                           FsAction("WriteFile", Append(root, "atom.xml"), <<>>,
                                    FALSE, FALSE, <<"feed">>)>>]

\* Blog::generate(root), up to the call of execute_fs_actions
Generate ==
    /\ blog # <<>>
    /\ result = "Idle"
    /\ LET plan == GenerateActions(blog, <<"dist">>)
       IN  /\ actions' = plan.actions
           /\ result' = IF plan.status = "Ok" THEN "Running" ELSE "Panic"
    /\ UNCHANGED <<source, metadata, meta_lines, loaded_post, tree, scan, blog,
                   disk, executed,
                   headingVars, filterVars, writerVars, templateVars, parseVars>>

\* execute_fs_actions, the body of the loop for the next action of the
\* list.  An operation of std::fs fails when the file system does not
\* allow it: a copy needs a source file and a directory to put it in, a
\* new directory or file needs its parent, a directory that is removed
\* without recursive has to be empty.
ExecuteAction ==
    /\ result = "Running"
    /\ Len(executed) < Len(actions)
    /\ LET action == actions[Len(executed) + 1]
           path == action.path
           Exists(p) == p \in DOMAIN disk
           IsDir(p) == Exists(p) /\ disk[p] = "dir"
           Parent(p) == Take(p, Len(p) - 1)
           Under(p) == { q \in DOMAIN disk : Len(q) >= Len(p) /\ Take(q, Len(p)) = p }
           With(p, kind) == [q \in DOMAIN disk \cup {p} |->
                                IF q = p THEN kind ELSE disk[q]]
           Without(ps) == [q \in DOMAIN disk \ ps |-> disk[q]]
           outcome ==
             CASE action.kind = "Copy" ->
                    IF /\ Exists(action.source) /\ disk[action.source] = "file"
                       /\ IsDir(Parent(path)) /\ ~IsDir(path)
                    THEN [how |-> "Done", disk |-> With(path, "file")]
                    ELSE [how |-> "Failed", disk |-> disk]
               [] action.kind = "DeleteDir" ->
                    IF ~Exists(path)
                    THEN [how |-> IF action.ok THEN "Skipped" ELSE "Failed",
                          disk |-> disk]
                    ELSE IF IsDir(path) /\ (action.recursive \/ Under(path) = {path})
                    THEN [how |-> "Done", disk |-> Without(Under(path))]
                    ELSE [how |-> "Failed", disk |-> disk]
               [] action.kind = "CreateDir" ->
                    IF action.ok /\ Exists(path)
                    THEN [how |-> IF IsDir(path) THEN "Returned" ELSE "Failed",
                          disk |-> disk]
                    ELSE IF ~Exists(path) /\ IsDir(Parent(path))
                    THEN [how |-> "Done", disk |-> With(path, "dir")]
                    ELSE [how |-> "Failed", disk |-> disk]
               [] action.kind = "WriteFile" ->
                    IF Exists(path) /\ disk[path] # "file"
                    THEN [how |-> "Failed", disk |-> disk]
                    ELSE IF IsDir(Parent(path))
                    THEN [how |-> "Done", disk |-> With(path, "file")]
                    ELSE [how |-> "Failed", disk |-> disk]
       IN  /\ disk' = outcome.disk
           /\ executed' = Append(executed, outcome.how)
           /\ result' = CASE outcome.how = "Failed" -> "Err"
                          [] outcome.how = "Returned" -> "Ok"
                          [] OTHER -> "Running"
    /\ UNCHANGED <<source, metadata, meta_lines, loaded_post, tree, scan, blog,
                   actions,
                   headingVars, filterVars, writerVars, templateVars, parseVars>>

\* execute_fs_actions, the Ok(()) after the loop
ExecuteReturn ==
    /\ result = "Running"
    /\ Len(executed) = Len(actions)
    /\ result' = "Ok"
    /\ UNCHANGED <<source, metadata, meta_lines, loaded_post, tree, scan, blog,
                   actions, disk, executed,
                   headingVars, filterVars, writerVars, templateVars, parseVars>>

(***************************************************************************)
(* The documents the writer is run on: sequences of blocks, each block the *)
(* events the parser produces for it.                                      *)
(***************************************************************************)
FootnoteReference(name) == Ev("FootnoteReference", "", name, <<>>, "")

LabelA == <<"a">>
LabelB == <<"b">>

ParaRef(l) == <<StartParagraph, TextEv(<<"t">>), FootnoteReference(l), EndParagraph>>
FootDef(l) ==
    <<StartEv("FootnoteDefinition", l, <<>>, ""), StartParagraph, TextEv(<<"n">>), EndParagraph,
      EndEv("FootnoteDefinition", l, <<>>, "")>>
ImageAltRef(l) ==
    <<StartParagraph, StartImage(ImgDest, <<>>), TextEv(<<"t">>),
      FootnoteReference(l), EndImage(ImgDest, <<>>), EndParagraph>>

Blocks ==
    LET Para == <<StartParagraph, TextEv(<<"t", "<">>), EndParagraph>>
        ImagePara ==
            <<StartParagraph, StartImage(ImgDest, ImgTitle), TextEv(<<"t">>),
              EndImage(ImgDest, ImgTitle), EndParagraph>>
        HeadingBlock(level, text) ==
            <<StartEv("Heading", Decimal(level), <<>>, ""), TextEv(text),
              EndEv("Heading", Decimal(level), <<>>, "")>>
    IN  { Para, ParaRef(LabelA), ParaRef(LabelB),
          FootDef(LabelA), FootDef(LabelB), ImagePara, ImageAltRef(LabelB),
          HeadingBlock(1, <<"x">>), HeadingBlock(2, <<"x">>),
          HeadingBlock(2, <<"x", " ", "2">>),
          <<Ev("Rule", "", <<>>, <<>>, "")>> }


(***************************************************************************)
(* Initial values of the components.                                       *)
(***************************************************************************)
\* HtmlWriter::new and AdaptorExt::hyperlink_headings
HeadingInit ==
    /\ heading_identifiers = {}
    /\ heading_calls = <<>>
    /\ generated_ids = {}
    /\ adaptor_calls = <<>>
    /\ head = <<>>
    /\ yielded = <<>>

\* HtmlWriter::new
WriterInit ==
    /\ out = <<>>
    /\ title_written = FALSE
    /\ expecting_heading_text = FALSE
    /\ inside_footnote_def = FALSE
    /\ end_newline = TRUE
    /\ table_state = "Head"
    /\ table_alignments = <<>>
    /\ table_cell_index = 0
    /\ numbers = [name \in {} |-> 0]
    /\ renders = <<>>

FilterIdle ==
    /\ events = <<>>
    /\ iter = <<>>
    /\ queue = <<>>
    /\ filtered = <<>>

(***************************************************************************)
(* A render pass seen from the heading allocators: every heading of the    *)
(* pass asks one of the two allocators for an identifier.                  *)
(***************************************************************************)
GenerateHeadingId(heading) ==
    /\ Len(heading_calls) + Len(adaptor_calls) < MaxHeadings
    /\ LET id == HeadingId(heading_identifiers, heading)
       IN  /\ heading_identifiers' = heading_identifiers \cup {id}
           /\ heading_calls' = Append(heading_calls,
                                      [heading |-> heading, id |-> id])
    /\ UNCHANGED <<generated_ids, adaptor_calls, head, yielded, filterVars, writerVars, templateVars, parseVars, siteVars>>

HyperlinkHeading(text) ==
    /\ Len(heading_calls) + Len(adaptor_calls) < MaxHeadings
    /\ LET id == AdaptorHeadingId(generated_ids, text)
       IN  /\ generated_ids' = generated_ids \cup {id}
           /\ adaptor_calls' = Append(adaptor_calls,
                                      [heading |-> text, id |-> id])
    /\ UNCHANGED <<heading_identifiers, heading_calls, head, yielded, filterVars,
                   writerVars, templateVars, parseVars, siteVars>>

InitHeadings == HeadingInit /\ FilterIdle /\ WriterInit /\ TemplateIdle /\ ParseIdle /\ SiteIdle

NextHeadings ==
    \/ \E heading \in HeadingTexts : GenerateHeadingId(heading)
    \/ \E text \in HeadingTexts : HyperlinkHeading(text)

SpecHeadings == InitHeadings /\ [][NextHeadings]_vars

(***************************************************************************)
(* The filter run to exhaustion, as by Iterator::collect.                  *)
(***************************************************************************)
InitFilter ==
    LET \* the pieces of the event sequences the filter is run on
        FilterFrags ==
            { <<StartParagraph>>, <<StartImage(ImgDest, ImgTitle)>>, <<TextEv(<<"t">>)>>,
              <<EndImage(ImgDest, ImgTitle)>>, <<EndParagraph>>, <<SoftBreak>>,
              <<StartParagraph, StartImage(ImgDest, ImgTitle), TextEv(<<"t">>),
                EndImage(ImgDest, ImgTitle)>>,
              <<StartParagraph, StartImage(ImgDest, ImgTitle), TextEv(<<"t">>),
                EndImage(ImgDest, ImgTitle), EndParagraph>> }
    IN  /\ HeadingInit
        /\ WriterInit
        /\ TemplateIdle /\ ParseIdle /\ SiteIdle
        /\ events \in { Flatten(fs) : fs \in SeqsUpTo(FilterFrags, MaxFilterFrags) }
        /\ iter = events
        /\ queue = <<>>
        /\ filtered = <<>>

FilterStep ==
    LET r == FilterNext([iter |-> iter, queue |-> queue])
    IN  /\ r.some
        /\ iter' = r.iter
        /\ queue' = r.queue
        /\ filtered' = Append(filtered, <<r.event, r.flag>>)
        /\ UNCHANGED <<events, headingVars, writerVars, templateVars, parseVars, siteVars>>

SpecFilter == InitFilter /\ [][FilterStep]_vars

(***************************************************************************)
(* push_html: HtmlWriter::new(iter, s).run(), one turn of the loop of run  *)
(* per step.                                                               *)
(***************************************************************************)
WriterState ==
    [iter |-> iter, queue |-> queue, out |-> out,
     title_written |-> title_written,
     expecting_heading_text |-> expecting_heading_text,
     heading_identifiers |-> heading_identifiers,
     inside_footnote_def |-> inside_footnote_def,
     end_newline |-> end_newline,
     table_state |-> table_state,
     table_alignments |-> table_alignments,
     table_cell_index |-> table_cell_index,
     numbers |-> numbers]

InitRender ==
    /\ HeadingInit
    /\ WriterInit
    /\ TemplateIdle /\ ParseIdle /\ SiteIdle
    /\ events \in { Flatten(bs) : bs \in SeqsUpTo(Blocks, MaxBlocks) }
    /\ iter = events
    /\ queue = <<>>
    /\ filtered = <<>>

RunStep ==
    LET r == Pull(WriterState)
        s == RunEvent(Pulled(WriterState, r), r.event, r.flag)
    IN  /\ r.some
        /\ iter' = s.iter
        /\ queue' = s.queue
        /\ out' = s.out
        /\ title_written' = s.title_written
        /\ expecting_heading_text' = s.expecting_heading_text
        /\ heading_identifiers' = s.heading_identifiers
        /\ inside_footnote_def' = s.inside_footnote_def
        /\ end_newline' = s.end_newline
        /\ table_state' = s.table_state
        /\ table_alignments' = s.table_alignments
        /\ table_cell_index' = s.table_cell_index
        /\ numbers' = s.numbers
        /\ heading_calls' =
              IF r.event.type = "Text" /\ expecting_heading_text
              THEN Append(heading_calls,
                          [heading |-> r.event.arg,
                           id |-> HeadingId(heading_identifiers, r.event.arg)])
              ELSE heading_calls
        /\ filtered' = Append(filtered, <<r.event, r.flag>>)
        /\ UNCHANGED <<events, generated_ids, adaptor_calls, head, yielded, renders, templateVars,
                       parseVars, siteVars>>

SpecRender == InitRender /\ [][RunStep]_vars

(***************************************************************************)
(* The template engine on every template text and every post of the site.  *)
(***************************************************************************)
InitTemplate == HeadingInit /\ FilterIdle /\ WriterInit /\ TemplateIdle /\ ParseIdle /\ SiteIdle

NextTemplate ==
    \/ \E fs \in SeqsUpTo(TemplateFrags, MaxTemplateFrags) :
          FromString(Flatten(fs))
    \/ /\ ~applied.done
       /\ \E i \in DOMAIN all_posts, fs \in {FsEmpty, FsFull} :
             Apply(all_posts[i], CssFiles, fs)

SpecTemplate == InitTemplate /\ [][NextTemplate]_vars

\* the strings parsed: blanks, quotes, backslashes and two other bytes
InitParse ==
    /\ unparsed \in SeqsUpTo({" ", "\t", "\"", "\\", "a", "_"}, MaxParseLen)
    /\ values = <<>>
    /\ parse_calls = <<>>
    /\ HeadingInit /\ FilterIdle /\ WriterInit /\ TemplateIdle /\ SiteIdle

SpecParse == InitParse /\ [][ParseNext]_vars

\* the loop goes on as long as the last call returned a value
SpecParseLive == SpecParse /\ WF_vars(ParseNext)

(***************************************************************************)
(* The Toc rule: a template that is one TOC directive, applied to posts    *)
(* with every table of contents up to the bounds.                          *)
(***************************************************************************)
InitToc ==
    /\ loaded = TRUE
    \* <!--P/TOC depth/P-->, and <!--P/TOC/P--> for the depth MaxTocDepth + 1
    /\ html \in
          { TEMPLATE_OPEN_MARKER \o RULE_TOC
              \o (IF depth > MaxTocDepth THEN <<>> ELSE <<" ">> \o Decimal(depth))
              \o TEMPLATE_CLOSE_MARKER : depth \in 0..(MaxTocDepth + 1) }
    /\ replacements = TemplateReplacements(html)
    /\ applied = NotApplied
    /\ apply_calls = <<>>
    /\ all_posts = AllPosts
    /\ HeadingInit /\ FilterIdle /\ WriterInit /\ ParseIdle /\ SiteIdle

\* the template is applied once, to a post with any md.toc: the headings
\* of the post and their levels
NextToc ==
    /\ ~applied.done
    /\ \E toc \in SeqsUpTo([heading : {<<"A">>, <<"B">>, <<"C">>},
                           depth : 1..MaxTocDepth], MaxTocLen) :
          Apply([PostA EXCEPT !.toc = toc], CssFiles, FsEmpty)

SpecToc == InitToc /\ [][NextToc]_vars

(***************************************************************************)
(* The Listing rule: a template that is one LIST directive, applied to a   *)
(* post of a site whose post list is any list of the posts below.          *)
(***************************************************************************)
\* posts in /r/a, /r/b and /r/ab, two of them with the title of another;
\* one has no metadata, one an empty value under the key k
ListedPosts ==
    LET ListedPost(title, date, dir, name, meta) ==
            [PostA EXCEPT !.title = <<title>>, !.date = date,
                          !.uri = <<"/">> \o dir \o <<"/", name>>,
                          !.path = PathOf(<<"/", "r", "/">> \o dir
                                          \o <<"/", name, ".", "m", "d">>),
                          !.meta = meta]
        NoMeta == [key \in {} |-> <<>>]
    IN  { ListedPost("B", 2, <<"a">>, "1", <<"k">> :> <<"v">>),
          ListedPost("A", 1, <<"a">>, "2", NoMeta),
          ListedPost("C", 1, <<"a">>, "3", <<"k">> :> <<"u">>),
          ListedPost("B", 1, <<"b">>, "4", <<"k">> :> <<>>),
          ListedPost("A", 2, <<"a", "b">>, "5", <<"k">> :> <<"u", "v">>) }

InitListing ==
    LET \* files: the post lists of the site, no post twice
        PostLists ==
            { fs \in SeqsUpTo(ListedPosts, MaxPosts) :
                \A i, j \in DOMAIN fs : i # j => fs[i] # fs[j] }
        \* <!--P/LIST path/P--> and <!--P/LIST path sort key order/P-->, the
        \* key k being no key of MetaKey but one of the metadata of a post
        ListTemplates ==
            { TEMPLATE_OPEN_MARKER \o RULE_LIST \o <<" ">> \o path \o sort
                \o TEMPLATE_CLOSE_MARKER :
                path \in { <<"/", "a">>, <<"/">> },
                sort \in {<<>>} \cup
                    { <<" ", "s", "o", "r", "t", " ">> \o key \o <<" ">> \o order :
                        key \in { <<"t", "i", "t", "l", "e">>, <<"d", "a", "t", "e">>,
                                  <<"k">> },
                        order \in { <<"a", "s", "c">>, <<"d", "e", "s", "c">> } } }
    IN  /\ loaded = TRUE
        /\ html \in ListTemplates
        /\ replacements = TemplateReplacements(html)
        /\ applied = NotApplied
        /\ apply_calls = <<>>
        /\ all_posts \in PostLists
        /\ HeadingInit /\ FilterIdle /\ WriterInit /\ ParseIdle /\ SiteIdle

\* the template is applied once, to one of the posts of the site
NextListing ==
    /\ ~applied.done
    /\ \E i \in DOMAIN all_posts : Apply(all_posts[i], CssFiles, FsEmpty)

SpecListing == InitListing /\ [][NextListing]_vars

(***************************************************************************)
(* The Css rule: a template that is one CSS directive between two bytes of *)
(* text, applied to a post with any list of style sheets.                  *)
(***************************************************************************)
InitCss ==
    /\ loaded = TRUE
    /\ html = <<"a">> \o TEMPLATE_OPEN_MARKER \o RULE_CSS
                \o TEMPLATE_CLOSE_MARKER \o <<"a">>
    /\ replacements = TemplateReplacements(html)
    /\ applied = NotApplied
    /\ apply_calls = <<>>
    /\ all_posts = AllPosts
    /\ HeadingInit /\ FilterIdle /\ WriterInit /\ ParseIdle /\ SiteIdle

\* the template is applied once: to a post in /a, in /b or in /ab, with the
\* style sheets of the root, of /a, of /b and of /a/p in any order, any of
\* them more than once
NextCss ==
    LET CssLists ==
            SeqsUpTo({ <<"/", "s", ".", "c", "s", "s">>,
                       <<"/", "a", "/", "s", ".", "c", "s", "s">>,
                       <<"/", "b", "/", "t", ".", "c", "s", "s">>,
                       <<"/", "a", "/", "p", "/", "u", ".", "c", "s", "s">> },
                     MaxCss)
        CssPosts == { PostA, PostC, [PostA EXCEPT !.uri = <<"/", "a", "b", "/", "p">>] }
    IN  /\ ~applied.done
        /\ \E css_files \in CssLists, post \in CssPosts :
              Apply(post, css_files, FsEmpty)

SpecCss == InitCss /\ [][NextCss]_vars

(***************************************************************************)
(* HyperlinkHeadings pulled event by event over the events of short        *)
(* documents made of headings of every shape and of paragraphs.            *)
(***************************************************************************)
\* a plausible slip: the event that follows a heading start is not put
\* aside in head when it is not text
AdaptorNextForgetful ==
    IF head # <<>>
    THEN /\ yielded' = Append(yielded, head[1])
         /\ head' = <<>>
         /\ UNCHANGED <<heading_identifiers, heading_calls, generated_ids,
                        adaptor_calls, filterVars, writerVars, templateVars,
                        parseVars, siteVars>>
    ELSE /\ iter # <<>>
         /\ LET item == Head(iter)
            IN  IF item.type = "Start" /\ item.tag = "Heading"
                THEN IF Len(iter) = 1
                     THEN /\ iter' = <<>>
                          /\ UNCHANGED <<head, yielded, generated_ids, adaptor_calls>>
                     ELSE IF iter[2].type = "Text"
                     THEN LET id == AdaptorHeadingId(generated_ids, iter[2].arg)
                          IN  /\ yielded' =
                                    Append(yielded,
                                           Ev("Html", "",
                                              <<"<h">> \o item.arg \o <<" id=\"">>
                                                  \o id \o <<"\">">>,
                                              <<>>, ""))
                              /\ head' = <<iter[2]>>
                              /\ generated_ids' = generated_ids \cup {id}
                              /\ adaptor_calls' =
                                    Append(adaptor_calls,
                                           [heading |-> iter[2].arg, id |-> id])
                              /\ iter' = Drop(iter, 2)
                     ELSE /\ head' = <<>>
                          /\ yielded' = Append(yielded, item)
                          /\ iter' = Drop(iter, 2)
                          /\ UNCHANGED <<generated_ids, adaptor_calls>>
                ELSE /\ yielded' = Append(yielded, item)
                     /\ iter' = Tail(iter)
                     /\ UNCHANGED <<head, generated_ids, adaptor_calls>>
         /\ UNCHANGED <<heading_identifiers, heading_calls, events, queue,
                        filtered, writerVars, templateVars, parseVars, siteVars>>

\* HyperlinkHeadings::next, a call that returns an event or uses up the
\* last event of the iterator
AdaptorNext ==
    IF head # <<>>
    THEN /\ yielded' = Append(yielded, head[1])
         /\ head' = <<>>
         /\ UNCHANGED <<heading_identifiers, heading_calls, generated_ids,
                        adaptor_calls, filterVars, writerVars, templateVars,
                        parseVars, siteVars>>
    ELSE /\ iter # <<>>
         /\ LET item == Head(iter)
            IN  IF item.type = "Start" /\ item.tag = "Heading"
                THEN IF Len(iter) = 1
                     THEN /\ iter' = <<>>
                          /\ UNCHANGED <<head, yielded, generated_ids, adaptor_calls>>
                     ELSE IF iter[2].type = "Text"
                     THEN LET id == AdaptorHeadingId(generated_ids, iter[2].arg)
                          IN  /\ yielded' =
                                    Append(yielded,
                                           Ev("Html", "",
                                              <<"<h">> \o item.arg \o <<" id=\"">>
                                                  \o id \o <<"\">">>,
                                              <<>>, ""))
                              /\ head' = <<iter[2]>>
                              /\ generated_ids' = generated_ids \cup {id}
                              /\ adaptor_calls' =
                                    Append(adaptor_calls,
                                           [heading |-> iter[2].arg, id |-> id])
                              /\ iter' = Drop(iter, 2)
                     ELSE /\ head' = <<iter[2]>>
                          /\ yielded' = Append(yielded, item)
                          /\ iter' = Drop(iter, 2)
                          /\ UNCHANGED <<generated_ids, adaptor_calls>>
                ELSE /\ yielded' = Append(yielded, item)
                     /\ iter' = Tail(iter)
                     /\ UNCHANGED <<head, generated_ids, adaptor_calls>>
         /\ UNCHANGED <<heading_identifiers, heading_calls, events, queue,
                        filtered, writerVars, templateVars, parseVars, siteVars>>

InitAdaptor ==
    LET Heading(inner) ==
            <<StartEv("Heading", <<"2">>, <<>>, "")>> \o inner
                \o <<EndEv("Heading", <<"2">>, <<>>, "")>>
        Code == Ev("Code", "", <<"c">>, <<>>, "")
        Emph == <<StartEv("Emphasis", <<>>, <<>>, ""), TextEv(<<"x">>),
                  EndEv("Emphasis", <<>>, <<>>, "")>>
        AdaptorBlocks ==
            { Heading(<<>>), Heading(<<TextEv(<<"x">>)>>), Heading(<<Code>>),
              Heading(<<TextEv(<<"x">>), Code>>), Heading(Emph),
              <<StartParagraph, TextEv(<<"t">>), EndParagraph>> }
    IN  /\ HeadingInit
        /\ WriterInit
        /\ TemplateIdle /\ ParseIdle /\ SiteIdle
        /\ events \in { Flatten(bs) : bs \in SeqsUpTo(AdaptorBlocks, MaxBlocks) }
        /\ iter = events
        /\ queue = <<>>
        /\ filtered = <<>>

SpecAdaptor == InitAdaptor /\ [][AdaptorNext]_vars

(***************************************************************************)
(* Blog::generate on blogs of up to MaxBlogPosts posts, with and without a *)
(* style sheet, over an empty output directory and over one that holds     *)
(* the output of an earlier run.                                           *)
(***************************************************************************)
InitBlog ==
    LET NewPost(path, title, modified, assets, markdown) ==
            [path |-> path, title |-> title, modified |-> modified,
             created |-> 1, assets |-> assets, markdown |-> markdown]
        Posts == { NewPost("a", <<"a">>, 2, <<>>, <<"t">>),
                   NewPost("b", <<"b">>, 1, << <<"content", "b", "i.png">> >>,
                           <<"t">>),
                   NewPost("a", <<"c">>, 1, <<>>, <<"t">>),
                   NewPost(CSS_DIR_NAME, <<"w">>, 1, <<>>, <<"t">>),
                   NewPost("u", <<"u">>, 1, <<>>, <<>>) }
        Content == (<<"content">> :> "dir")
                       @@ (<<"content", CSS_FILE_NAME>> :> "file")
                       @@ (<<"content", "b">> :> "dir")
                       @@ (<<"content", "b", "i.png">> :> "file")
                       @@ (<<"dist">> :> "dir")
        Earlier == (<<"dist", "a">> :> "dir")
                       @@ (<<"dist", "a", "index.html">> :> "file")
                       @@ (<<"dist", CSS_DIR_NAME>> :> "dir")
    IN  /\ HeadingInit /\ FilterIdle /\ WriterInit /\ TemplateIdle /\ ParseIdle
        /\ source = <<>> /\ metadata = <<>> /\ meta_lines = <<>>
        /\ loaded_post = <<>>
        /\ tree = <<>> /\ scan = <<>>
        /\ blog \in { [posts |-> ps, css_path |-> css] :
                        ps \in SeqsUpTo(Posts, MaxBlogPosts),
                        css \in { <<>>, << <<"content", CSS_FILE_NAME>> >> } }
        /\ actions = <<>>
        /\ disk \in { Content, Content @@ Earlier }
        /\ executed = <<>>
        /\ result = "Idle"

NextBlog == Generate \/ ExecuteAction \/ ExecuteReturn

SpecBlog == InitBlog /\ [][NextBlog]_vars

(***************************************************************************)
(* execute_fs_actions on every list of up to MaxActions actions on one     *)
(* directory, which is there or not at the start.                          *)
(***************************************************************************)
InitExec ==
    LET d == <<"d">>
        Alphabet ==
            { FsAction("CreateDir", d, <<>>, TRUE, FALSE, <<>>),
              FsAction("CreateDir", d, <<>>, FALSE, FALSE, <<>>),
              FsAction("DeleteDir", d, <<>>, TRUE, TRUE, <<>>),
              FsAction("DeleteDir", d, <<>>, FALSE, FALSE, <<>>),
              FsAction("WriteFile", <<"d", "f">>, <<>>, FALSE, FALSE, <<"x">>),
              FsAction("Copy", <<"d", "g">>, <<"s">>, FALSE, FALSE, <<>>) }
    IN  /\ HeadingInit /\ FilterIdle /\ WriterInit /\ TemplateIdle /\ ParseIdle
        /\ source = <<>> /\ metadata = <<>> /\ meta_lines = <<>>
        /\ loaded_post = <<>>
        /\ tree = <<>> /\ scan = <<>>
        /\ blog = <<>>
        /\ actions \in SeqsUpTo(Alphabet, MaxActions)
        /\ disk \in { <<"s">> :> "file", (<<"s">> :> "file") @@ (d :> "dir") }
        /\ executed = <<>>
        /\ result = "Running"

NextExec == ExecuteAction \/ ExecuteReturn

SpecExec == InitExec /\ [][NextExec]_vars

(***************************************************************************)
(* One template of three directives of three kinds, an INCLUDE first,      *)
(* applied by several callers at once, each to a post and a state of the   *)
(* disk.                                                                   *)
(***************************************************************************)
InitCalls ==
    /\ loaded = TRUE
    /\ html \in { t \in { Flatten(fs) : fs \in [1..2 -> TemplateFrags] } :
                    LET rs == TemplateReplacements(t)
                    IN  /\ Len(rs) = 3
                        /\ rs[1].rule.kind = "Include"
                        /\ Cardinality({ rs[i].rule.kind : i \in 1..3 }) = 3 }
    /\ replacements = TemplateReplacements(html)
    /\ applied = NotApplied
    /\ all_posts = AllPosts
    /\ apply_calls = <<>>
    /\ HeadingInit /\ FilterIdle /\ WriterInit /\ ParseIdle /\ SiteIdle

NextCalls ==
    \/ \E post \in {PostA, PostC}, fs \in {FsEmpty, FsFull} : BeginApply(post, fs)
    \/ \E t \in DOMAIN apply_calls : ApplyStep(t)

SpecCalls == InitCalls /\ [][NextCalls]_vars

(***************************************************************************)
(* The writer on headings of every shape: empty, starting with text, with  *)
(* inline code or with emphasis.                                           *)
(***************************************************************************)
InitHeadingDocs ==
    LET Heading(inner) ==
            <<StartEv("Heading", <<"2">>, <<>>, "")>> \o inner
                \o <<EndEv("Heading", <<"2">>, <<>>, "")>>
        Code == Ev("Code", "", <<"c">>, <<>>, "")
        Emph == <<StartEv("Emphasis", <<>>, <<>>, ""), TextEv(<<"x">>),
                  EndEv("Emphasis", <<>>, <<>>, "")>>
        HeadingBlocks ==
            { Heading(<<>>), Heading(<<TextEv(<<"x">>)>>), Heading(<<Code>>),
              Heading(<<TextEv(<<"x">>), Code>>), Heading(Emph) }
    IN  /\ HeadingInit
        /\ WriterInit
        /\ TemplateIdle /\ ParseIdle /\ SiteIdle
        /\ events \in { Flatten(bs) : bs \in SeqsUpTo(HeadingBlocks, MaxBlocks) }
        /\ iter = events
        /\ queue = <<>>
        /\ filtered = <<>>

SpecHeadingDocs == InitHeadingDocs /\ [][RunStep]_vars

(***************************************************************************)
(* The post loader on every post whose meta block has up to MaxMetaLines   *)
(* lines, on posts that start with another code block and on posts with    *)
(* no code block, with and without a level one heading.  The backquote    *)
(* of a fence is written ' in the model.                                   *)
(***************************************************************************)
InitPost ==
    LET Keys == { <<"t", "i", "t", "l", "e">>, <<"T", "i", "t", "l", "e">>,
                  <<"p", "a", "t", "h">>, <<"c", "r", "e", "a", "t", "e", "d">>,
                  <<"u", "p", "d", "a", "t", "e", "d">>, <<"x">> }
        Values == { <<" ", "w">>, <<" ">>,
                    <<" ", "2", "0", "2", "0", "-", "0", "5", "-", "0", "5">>,
                    <<" ", "2", "0", "2", "0", "-", "1", "3", "-", "0", "5">> }
        Lines == { k \o <<":">> \o v : k \in Keys, v \in Values }
                     \cup { <<"t", "i", "t", "l", "e", " ", "w">>, <<>> }
        Para == <<StartParagraph, TextEv(<<"t">>), EndParagraph>>
        Bodies == { Para,
                    <<StartEv("Heading", <<"1">>, <<>>, ""), TextEv(<<"h">>),
                      EndEv("Heading", <<"1">>, <<>>, "")>> \o Para }
        Ticks == <<"'", "'", "'">>
        Block(ls) == << Ticks \o <<"m", "e", "t", "a">> >> \o ls \o <<Ticks>>
        Kept(line) == line # <<>> /\ Trim(line) # Ticks
    IN  /\ HeadingInit /\ FilterIdle /\ WriterInit /\ TemplateIdle /\ ParseIdle
        /\ source \in
              { [fence |-> "meta", lines |-> ls, body |-> b, stem |-> <<"p">>] :
                    ls \in SeqsUpTo(Lines, MaxMetaLines), b \in Bodies }
              \cup { [fence |-> f, lines |-> << <<"x">> >>, body |-> b,
                      stem |-> <<"p">>] : f \in {"none", "rust"}, b \in Bodies }
        /\ metadata = [title |-> <<>>, path |-> source.stem,
                   created |-> <<1999, 12, 1>>, modified |-> <<1999, 12, 1>>]
        /\ meta_lines = IF source.fence = "meta"
                        THEN SelectSeq(Tail(Block(source.lines)), Kept)
                        ELSE <<>>
        /\ loaded_post = <<>>
        /\ tree = <<>> /\ scan = <<>>
        /\ blog = <<>> /\ actions = <<>>
        /\ disk = <<>> /\ executed = <<>> /\ result = "Idle"

NextPost == UpdateFromMetaLine \/ FromSourcesReturn

SpecPost == InitPost /\ [][NextPost]_vars

(***************************************************************************)
(* push_html called again and again: every call makes its own HtmlWriter   *)
(* over a string of its own, and the writer of the call before is dropped. *)
(***************************************************************************)
\* a plausible slip: a writer that takes over the heading identifiers, the
\* footnote numbers and the title mark of the writer before it
HtmlWriterKept(doc, writer) ==
    [iter |-> doc, queue |-> <<>>, out |-> writer,
     title_written |-> title_written,
     expecting_heading_text |-> FALSE,
     heading_identifiers |-> heading_identifiers,
     inside_footnote_def |-> FALSE,
     end_newline |-> TRUE,
     table_state |-> "Head",
     table_alignments |-> <<>>,
     table_cell_index |-> 0,
     numbers |-> numbers]

\* HtmlWriter::new(iter, writer)
HtmlWriterNew(doc, writer) ==
    [iter |-> doc, queue |-> <<>>, out |-> writer,
     title_written |-> FALSE,
     expecting_heading_text |-> FALSE,
     heading_identifiers |-> {},
     inside_footnote_def |-> FALSE,
     end_newline |-> TRUE,
     table_state |-> "Head",
     table_alignments |-> <<>>,
     table_cell_index |-> 0,
     numbers |-> [name \in {} |-> 0]]

\* the documents rendered one after the other: two blocks, each a heading
\* or a paragraph with a footnote reference
RenderDocs ==
    LET Heading == <<StartEv("Heading", <<"2">>, <<>>, ""), TextEv(<<"x">>),
                     EndEv("Heading", <<"2">>, <<>>, "")>>
    IN  { a \o b : a, b \in {Heading, ParaRef(LabelA), ParaRef(LabelB)} }

InitRenders ==
    /\ HeadingInit
    /\ WriterInit
    /\ TemplateIdle /\ ParseIdle /\ SiteIdle
    /\ events \in RenderDocs
    /\ iter = events
    /\ queue = <<>>
    /\ filtered = <<>>

\* push_html(s, iter) with an empty s, once the call before it has returned
PushHtml(doc) ==
    LET s == HtmlWriterNew(doc, <<>>)
    IN  /\ iter = <<>> /\ queue = <<>>
        /\ Len(renders) + 1 < MaxRenders
        /\ renders' = Append(renders, [events |-> events, out |-> out,
                                       heading_calls |-> heading_calls,
                                       numbers |-> numbers])
        /\ events' = doc
        /\ iter' = s.iter
        /\ queue' = s.queue
        /\ filtered' = <<>>
        /\ out' = s.out
        /\ title_written' = s.title_written
        /\ expecting_heading_text' = s.expecting_heading_text
        /\ heading_identifiers' = s.heading_identifiers
        /\ inside_footnote_def' = s.inside_footnote_def
        /\ end_newline' = s.end_newline
        /\ table_state' = s.table_state
        /\ table_alignments' = s.table_alignments
        /\ table_cell_index' = s.table_cell_index
        /\ numbers' = s.numbers
        /\ heading_calls' = <<>>
        /\ UNCHANGED <<generated_ids, adaptor_calls, head, yielded, templateVars, parseVars, siteVars>>

NextRenders ==
    \/ RunStep
    \/ \E doc \in RenderDocs : PushHtml(doc)

SpecRenders == InitRenders /\ [][NextRenders]_vars

(***************************************************************************)
(* Scan::new on every source root of up to MaxEntries entries: plain       *)
(* files, style sheets, templates, markdown files with and without a       *)
(* template, and a directory with a template and a markdown file in it.    *)
(***************************************************************************)
InitScan ==
    LET File(dir, name) ==
            [path |-> [dir |-> dir, name |-> name], is_dir |-> FALSE,
             template |-> <<>>]
        Md(dir, name, template) ==
            [path |-> [dir |-> dir, name |-> name], is_dir |-> FALSE,
             template |-> template]
        THtml == <<"t", ".", "h", "t", "m", "l">>
        UHtml == <<"u", ".", "h", "t", "m", "l">>
        Png == <<"i", ".", "p", "n", "g">>
        RootEntries ==
            { File(<<>>, THtml), File(<<>>, Png), File(<<>>, <<"s", ".", "c", "s", "s">>),
              File(<<>>, <<"x">>),
              Md(<<>>, <<"a", ".", "m", "d">>, <<>>),
              Md(<<>>, <<"a", ".", "m", "d">>, <<[dir |-> <<>>, name |-> THtml]>>),
              Md(<<>>, <<"b", ".", "M", "D">>, <<[dir |-> <<"d">>, name |-> UHtml]>>),
              [path |-> [dir |-> <<>>, name |-> <<"d">>], is_dir |-> TRUE,
               template |-> <<>>] }
        Listings ==
            { es \in SeqsUpTo(RootEntries, MaxEntries) :
                \A i, j \in DOMAIN es : i # j => es[i].path # es[j].path }
    IN  /\ HeadingInit /\ FilterIdle /\ WriterInit /\ TemplateIdle /\ ParseIdle
        /\ source = <<>> /\ metadata = <<>> /\ meta_lines = <<>>
        /\ loaded_post = <<>>
        /\ blog = <<>> /\ actions = <<>>
        /\ disk = <<>> /\ executed = <<>> /\ result = "Idle"
        /\ \E es \in Listings :
              tree = [dir \in {<<>>, <<"d">>} |->
                        IF dir = <<>> THEN es
                        ELSE <<File(<<"d">>, UHtml), File(<<"d">>, Png),
                               Md(<<"d">>, <<"c", ".", "m", "d">>,
                                  <<[dir |-> <<"d">>, name |-> UHtml]>>)>>]
        /\ scan = [pending |-> << <<>> >>, entries |-> <<>>, dirs_to_create |-> <<>>,
                   files_to_copy |-> <<>>, css_files |-> <<>>, md_files |-> <<>>,
                   templates |-> {}, stage |-> "Walk"]

NextScan == ScanPop \/ ScanEntry \/ ScanRetain

SpecScan == InitScan /\ [][NextScan]_vars

(***************************************************************************)
(* The writer on tables and on paragraphs with images: a first block,      *)
(* then nothing or a second block.  A table is the events the parser gives *)
(* for it: a head of one cell per column, then rows of one cell per        *)
(* column; the argument of Start(Table) is the list of its alignments.     *)
(***************************************************************************)
InitTables ==
    LET Tagged(tag, body) ==
            <<StartEv(tag, <<>>, <<>>, "")>> \o body \o <<EndEv(tag, <<>>, <<>>, "")>>
        Cells(n, text) == Flatten([k \in 1..n |-> Tagged("TableCell", <<TextEv(text)>>)])
        Table(aligns, rows) ==
            <<StartEv("Table", aligns, <<>>, "")>>
            \o Tagged("TableHead", Cells(Len(aligns), <<"h">>))
            \o Flatten([r \in 1..rows |->
                           Tagged("TableRow", Cells(Len(aligns), <<"d">>))])
            \o <<EndEv("Table", aligns, <<>>, "")>>
        Image(title) == <<StartImage(ImgDest, title), TextEv(<<"t">>),
                          EndImage(ImgDest, title)>>
        ImagePara(title) == <<StartParagraph>> \o Image(title) \o <<EndParagraph>>
        TextImage(title) ==
            <<StartParagraph, TextEv(<<"t">>)>> \o Image(title) \o <<EndParagraph>>
        ImageText(title) ==
            <<StartParagraph>> \o Image(title) \o <<TextEv(<<"t">>), EndParagraph>>
        First ==
            { Table(a, r) :
                a \in UNION { [1..c -> {"None", "Left", "Center", "Right"}] :
                                c \in 1..MaxColumns },
                r \in 0..MaxRows }
            \cup { ImagePara(ImgTitle), ImagePara(<<"<">>), ImagePara(<<>>),
                   TextImage(ImgTitle), TextImage(<<>>), ImageText(ImgTitle) }
        Second ==
            { <<>>, Table(<<"Center">>, 1), Table(<<"None", "Left">>, 1),
              ImagePara(ImgTitle), TextImage(ImgTitle) }
    IN  /\ HeadingInit
        /\ WriterInit
        /\ TemplateIdle /\ ParseIdle /\ SiteIdle
        /\ events \in { a \o b : a \in First, b \in Second }
        /\ iter = events
        /\ queue = <<>>
        /\ filtered = <<>>

SpecTables == InitTables /\ [][RunStep]_vars

(***************************************************************************)
(* generate_heading_id applied once to every heading text of a bounded     *)
(* length, from a fresh writer.                                            *)
(***************************************************************************)
NextHeadingText ==
    /\ heading_calls = <<>>
    /\ adaptor_calls = <<>>
    /\ \E heading \in SeqsUpTo({"x", "X", "2", " ", "_"}, MaxHeadingLen) :
          GenerateHeadingId(heading)

SpecHeadingText == InitHeadings /\ [][NextHeadingText]_vars

(***************************************************************************)
(* Claims on the heading identifiers.                                      *)
(***************************************************************************)
IssuedBefore(calls, k) == { calls[j].id : j \in 1..(k - 1) }

PairwiseDistinct(calls) ==
    \A i, j \in DOMAIN calls : i # j => calls[i].id # calls[j].id

\* C2: within one render pass the identifiers issued for the headings are
\* pairwise distinct, for HtmlWriter::generate_heading_id and for the
\* HyperlinkHeadings adaptor.
C2_IdentifiersDistinct ==
    /\ PairwiseDistinct(heading_calls)
    /\ PairwiseDistinct(adaptor_calls)

\* a heading whose own text normalizes to an identifier that was issued
\* earlier as a suffixed duplicate
C2_Witness ==
    /\ Len(heading_calls) = 3
    /\ heading_calls[1].heading = <<"x">>
    /\ heading_calls[2].heading = <<"X">>
    /\ heading_calls[2].id = <<"x", "_", "2">>
    /\ heading_calls[3].heading = <<"x", " ", "2">>
    /\ heading_calls[3].id = <<"x", "_", "2", "_", "2">>

Suffixed(X, n) == X \o <<SEP_CHAR>> \o Decimal(n)

\* id is X_n for the smallest n >= 2 such that X_n is not in issued
SmallestFreeSuffix(id, X, issued, k) ==
    \E n \in 2..(k + 1) :
        /\ id = Suffixed(X, n)
        /\ Suffixed(X, n) \notin issued
        /\ \A m \in 2..(n - 1) : Suffixed(X, m) \in issued

\* C3 as stated: the first heading whose text normalizes to X gets the bare
\* identifier X, every later one X_n for the smallest unused n >= 2, and the
\* identifier returned is in the per-pass set.
C3_FirstGetsBare ==
    \A k \in DOMAIN heading_calls :
        LET X == NormalizeHeading(heading_calls[k].heading)
            id == heading_calls[k].id
            earlier == { j \in 1..(k - 1) :
                           NormalizeHeading(heading_calls[j].heading) = X }
        IN  /\ earlier = {} => id = X
            /\ earlier # {} =>
                  SmallestFreeSuffix(id, X, IssuedBefore(heading_calls, k), k)
            /\ id \in heading_identifiers

\* C3 amended: a heading whose text normalizes to X gets X when X has not
\* been issued yet in the pass, and otherwise X_n for the smallest n >= 2
\* such that X_n has not been issued yet; the per-pass set holds exactly the
\* identifiers issued.
C3_BareUnlessIssued ==
    /\ \A k \in DOMAIN heading_calls :
          LET X == NormalizeHeading(heading_calls[k].heading)
              id == heading_calls[k].id
              issued == IssuedBefore(heading_calls, k)
          IN  /\ X \notin issued => id = X
              /\ X \in issued => SmallestFreeSuffix(id, X, issued, k)
    /\ heading_identifiers = { heading_calls[k].id : k \in DOMAIN heading_calls }

\* the first heading that normalizes to X arrives when X is already issued
C3_Witness ==
    \E k \in DOMAIN heading_calls :
        LET X == NormalizeHeading(heading_calls[k].heading)
        IN  /\ X \in IssuedBefore(heading_calls, k)
            /\ \A j \in 1..(k - 1) :
                  NormalizeHeading(heading_calls[j].heading) # X
            /\ heading_calls[k].id = Suffixed(X, 2)

\* the identifier the normalisation rule gives: every alphanumeric
\* lowercased, every maximal run of other characters one separator
RunStartsAt(heading, i) ==
    /\ ~IsAlphanumeric(heading[i])
    /\ i = 1 \/ IsAlphanumeric(heading[i - 1])

CollapsedIdentifier(heading) ==
    LET piece(i) == IF IsAlphanumeric(heading[i]) THEN ToLowercase(heading[i])
                    ELSE IF RunStartsAt(heading, i) THEN <<SEP_CHAR>>
                    ELSE <<>>
    IN  Flatten([i \in 1..Len(heading) |-> piece(i)])

HelloWorld == <<"H", "e", "l", "l", "o", " ", "W", "o", "r", "l", "d">>

\* C4: the identifier before collision resolution holds every alphanumeric
\* character lowercased and exactly one separator for each maximal run of
\* non-alphanumeric characters, also at the start and at the end; "Hello
\* World" gives hello_world; no two separators are adjacent.
C4_Normalization ==
    /\ NormalizeHeading(HelloWorld)
          = <<"h", "e", "l", "l", "o", "_", "w", "o", "r", "l", "d">>
    /\ \A k \in DOMAIN heading_calls :
          LET heading == heading_calls[k].heading
              id == heading_calls[k].id
          IN  IssuedBefore(heading_calls, k) = {} =>
                /\ id = CollapsedIdentifier(heading)
                /\ \A i \in 1..(Len(id) - 1) :
                      ~(id[i] = SEP_CHAR /\ id[i + 1] = SEP_CHAR)

\* a heading with a run at the start and a longer run at the end
C4_Witness ==
    /\ Len(heading_calls) = 1
    /\ heading_calls[1].heading = <<" ", "X", "_", " ">>
    /\ heading_calls[1].id = <<"_", "x", "_">>

(***************************************************************************)
(* Claims on the image-paragraph filter.                                   *)
(***************************************************************************)
FilterDone == iter = <<>> /\ queue = <<>>

IsPattern(evs, i) ==
    /\ i + 4 <= Len(evs)
    /\ evs[i].type = "Start" /\ evs[i].tag = "Paragraph"
    /\ evs[i + 1].type = "Start" /\ evs[i + 1].tag = "Image"
    /\ evs[i + 2].type = "Text"
    /\ evs[i + 3].type = "End" /\ evs[i + 3].tag = "Image"
    /\ evs[i + 4].type = "End" /\ evs[i + 4].tag = "Paragraph"

RunStarts(evs) == { i \in 1..Len(evs) : IsPattern(evs, i) }

\* where the image start of the run at i lies in the output
ImagePosition(evs, i) == i - 2 * Cardinality({ j \in RunStarts(evs) : j < i })

\* C5: every run of five consecutive events Start(Paragraph), Start(Image),
\* Text, End(Image), End(Paragraph) becomes exactly three output items,
\* (Start(Image), true), (Text, false), (End(Image), false): the paragraph
\* events are omitted.
C5_ImageParagraphUnwrapped ==
    FilterDone =>
        /\ Len(filtered) = Len(events) - 2 * Cardinality(RunStarts(events))
        /\ \A i \in RunStarts(events) :
              LET p == ImagePosition(events, i)
              IN  /\ filtered[p] = <<events[i + 1], TRUE>>
                  /\ filtered[p + 1] = <<events[i + 2], FALSE>>
                  /\ filtered[p + 2] = <<events[i + 3], FALSE>>

\* two image paragraphs have been filtered
C5_Witness ==
    /\ FilterDone
    /\ Cardinality(RunStarts(events)) >= 2

Erased(items) == [k \in 1..Len(items) |-> items[k][1]]

\* the paragraph events of the matched runs
DroppedIndices(evs) == UNION { {i, i + 4} : i \in RunStarts(evs) }

RECURSIVE KeepFrom(_, _, _)
KeepFrom(evs, i, dropped) ==
    IF i > Len(evs) THEN <<>>
    ELSE IF i \in dropped THEN KeepFrom(evs, i + 1, dropped)
    ELSE <<evs[i]>> \o KeepFrom(evs, i + 1, dropped)

Unwrapped(evs) == KeepFrom(evs, 1, DroppedIndices(evs))

IsPrefix(a, b) == Len(a) <= Len(b) /\ a = SubSeq(b, 1, Len(a))

\* C6: the output with the flags erased is the input without the paragraph
\* events of the matched image paragraphs: every other event is emitted
\* exactly once, in input order, with flag false.
C6_OthersPassThrough ==
    /\ IsPrefix(Erased(filtered), Unwrapped(events))
    /\ FilterDone => Erased(filtered) = Unwrapped(events)
    /\ \A k \in DOMAIN filtered :
          filtered[k][2] =>
              \E i \in RunStarts(events) : k = ImagePosition(events, i)

\* a lookahead that began as an image paragraph and did not match
C6_Witness ==
    /\ FilterDone
    /\ \E i \in 1..Len(events) :
          /\ i + 4 <= Len(events)
          /\ IsPattern(SubSeq(events, i, i + 3) \o <<EndParagraph>>, 1)
          /\ ~IsPattern(events, i)
    /\ RunStarts(events) # {}

(***************************************************************************)
(* Claims on the writer.                                                   *)
(***************************************************************************)
RenderDone == iter = <<>> /\ queue = <<>>

IsLabelEvent(e) ==
    \/ e.type = "FootnoteReference"
    \/ e.type = "Start" /\ e.tag = "FootnoteDefinition"

LabelsOf(evs) ==
    LET les == SelectSeq(evs, IsLabelEvent)
    IN  [k \in 1..Len(les) |-> les[k].arg]

\* the labels of the events the writer has handled, in order
SeenLabels ==
    SubSeq(LabelsOf(events), 1,
           Len(LabelsOf(events)) - Len(LabelsOf(queue \o iter)))

FirstIndex(seq, x) ==
    CHOOSE i \in DOMAIN seq : seq[i] = x /\ \A j \in 1..(i - 1) : seq[j] # x

\* 1 + the number of distinct labels seen before the first occurrence of l
FirstSeenRank(seen, l) ==
    1 + Cardinality({ seen[j] : j \in 1..(FirstIndex(seen, l) - 1) })

RefLinkTok == "<a href=\"#f."
RefIdTok == "<sup class=\"footnote-reference\" id=\"r."
DefIdTok == "<p class=\"footnote\" id=\"f."
ReturnLinkTok == " <a href=\"#r."

\* C7: footnote labels are numbered in first-seen order over references,
\* definitions and references in image alt text together: the k-th distinct
\* label seen gets number k, a label keeps its number, and two labels never
\* share one.
C7_FootnoteNumbers ==
    /\ DOMAIN numbers = { SeenLabels[k] : k \in DOMAIN SeenLabels }
    /\ \A l \in DOMAIN numbers : numbers[l] = FirstSeenRank(SeenLabels, l)
    /\ \A l, m \in DOMAIN numbers : l # m => numbers[l] # numbers[m]
    /\ \A p \in DOMAIN out :
          /\ out[p] = RefLinkTok =>
                \E l \in DOMAIN numbers :
                    SubSeq(out, p + 1, p + Len(l) + 1 + Len(Decimal(numbers[l])))
                        = EscapeHtml(l) \o <<"\">">> \o Decimal(numbers[l])
          /\ out[p] = DefIdTok =>
                \E l \in DOMAIN numbers :
                    SubSeq(out, p + 1, p + Len(l) + 2 + Len(Decimal(numbers[l])))
                        = EscapeHtml(l) \o <<"\">", "<sup>">>
                            \o Decimal(numbers[l])

\* a label first met in an image's alt text, then another label's
\* definition, then the first label again in a reference
C7_Witness ==
    /\ RenderDone
    /\ events = ImageAltRef(LabelB) \o FootDef(LabelA) \o ParaRef(LabelB)
    /\ numbers[LabelB] = 1
    /\ numbers[LabelA] = 2

\* the places in the output of a token followed by the label
Places(tok, l) ==
    { p \in DOMAIN out : out[p] = tok /\ SubSeq(out, p + 1, p + Len(l)) = l }

Least(S) == CHOOSE p \in S : \A q \in S : p <= q
\* the k-th member of a set of places, in rising order
Nth(S, k) == CHOOSE x \in S : Cardinality({ y \in S : y < x }) = k - 1

RefEvents(l) ==
    { i \in DOMAIN events : events[i] = FootnoteReference(l) }
DefEvents(l) ==
    { i \in DOMAIN events : events[i] = StartEv("FootnoteDefinition", l, <<>>, "") }

InsideImage(i) ==
    \E j \in 1..(i - 1) :
        /\ events[j].type = "Start" /\ events[j].tag = "Image"
        /\ \A k \in j..i : ~(events[k].type = "End" /\ events[k].tag = "Image")

\* the document holds one reference to l outside image alt text and one
\* definition of l, and has been rendered
OneRefOneDef(l) ==
    /\ RenderDone
    /\ Cardinality(RefEvents(l)) = 1
    /\ Cardinality(DefEvents(l)) = 1
    /\ ~InsideImage(Least(RefEvents(l)))

AnchorsInReferenceOrder(l) ==
    /\ Least(Places(RefIdTok, l)) < Least(Places(DefIdTok, EscapeHtml(l)))
    /\ Least(Places(RefLinkTok, EscapeHtml(l)))
          < Least(Places(DefIdTok, EscapeHtml(l)))
    /\ Least(Places(RefIdTok, l)) < Least(Places(ReturnLinkTok, l))

AnchorsInDefinitionOrder(l) ==
    /\ Least(Places(DefIdTok, EscapeHtml(l))) < Least(Places(RefIdTok, l))
    /\ Least(Places(ReturnLinkTok, l)) < Least(Places(RefIdTok, l))
    /\ Least(Places(DefIdTok, EscapeHtml(l)))
          < Least(Places(RefLinkTok, EscapeHtml(l)))

AllAnchorsOnce(l) ==
    /\ Cardinality(Places(RefIdTok, l)) = 1
    /\ Cardinality(Places(RefLinkTok, EscapeHtml(l))) = 1
    /\ Cardinality(Places(DefIdTok, EscapeHtml(l))) = 1
    /\ Cardinality(Places(ReturnLinkTok, l)) = 1

\* C8 as stated: with one reference and one matching definition there is
\* exactly one anchor id="r.<label>", and it comes before id="f.<label>"
\* whichever of the two comes first in the source; #f.<label> precedes
\* id="f.<label>" and id="r.<label>" precedes #r.<label>.
C8_ReferenceAlwaysFirst ==
    \A l \in {LabelA, LabelB} :
        OneRefOneDef(l) => AllAnchorsOnce(l) /\ AnchorsInReferenceOrder(l)

\* C8 amended: there is exactly one anchor id="r.<label>"; the anchors follow
\* the order of the source: when the reference comes first, id="r.<label>"
\* precedes id="f.<label>", #f.<label> precedes id="f.<label>" and
\* id="r.<label>" precedes #r.<label>; when the definition comes first,
\* id="f.<label>" and #r.<label> precede id="r.<label>" and #f.<label>.
C8_AnchorsInSourceOrder ==
    \A l \in {LabelA, LabelB} :
        OneRefOneDef(l) =>
            /\ AllAnchorsOnce(l)
            /\ Least(RefEvents(l)) < Least(DefEvents(l))
                  => AnchorsInReferenceOrder(l)
            /\ Least(DefEvents(l)) < Least(RefEvents(l))
                  => AnchorsInDefinitionOrder(l)

\* a document whose definition comes before its reference
C8_Witness ==
    /\ OneRefOneDef(LabelA)
    /\ Least(DefEvents(LabelA)) < Least(RefEvents(LabelA))
    /\ AnchorsInDefinitionOrder(LabelA)

TitleTok == " class=\"title\""

HeadingOpens == { p \in DOMAIN out : out[p] = "<h" }

\* C9: exactly the first Start(Heading) of a render is written with
\* class="title"; title_written starts false, is true from the first
\* heading on and is never reset.
C9_TitleOnFirstHeading ==
    /\ title_written = (HeadingOpens # {})
    /\ \A p \in HeadingOpens :
          (out[p + 2] = TitleTok) = (p = Least(HeadingOpens))
    /\ Cardinality({ p \in DOMAIN out : out[p] = TitleTok })
          = IF HeadingOpens = {} THEN 0 ELSE 1

\* three headings have been rendered
C9_Witness ==
    /\ RenderDone
    /\ Cardinality(HeadingOpens) = 3

(***************************************************************************)
(* Claims on the template engine.                                          *)
(***************************************************************************)
\* the value the rule of the k-th replacement has in the last apply
ValueAt(k) ==
    RuleValue(replacements[k].rule, Root, applied.post, all_posts,
              applied.css_files, applied.fs)

RangeText(k) == SubSeq(html, replacements[k].start + 1, replacements[k].end)

\* what stands in the place of the k-th range: the value of the rule, and
\* the text of the range itself when the rule has no value
Piece(k) == IF ValueAt(k).status = "Ok" THEN ValueAt(k).value ELSE RangeText(k)

\* the template text between the (k-1)-th range and the k-th
Gap(k) ==
    SubSeq(html,
           (IF k = 1 THEN 0 ELSE replacements[k - 1].end) + 1,
           IF k = Len(replacements) + 1 THEN Len(html)
           ELSE replacements[k].start)

Substituted ==
    Flatten([j \in 1..(2 * Len(replacements) + 1) |->
                IF j % 2 = 1 THEN Gap((j + 1) \div 2) ELSE Piece(j \div 2)])

\* C1: what apply returns is the original template text with each range
\* replaced by the value of its rule and every byte outside the ranges kept
\* in its place, whatever the lengths of the values.
C1_ApplySubstitutesRanges ==
    (applied.done /\ applied.status = "Ok") => applied.html = Substituted

\* three directives: an include that cannot be read, a value that is empty
\* and a value that is not
C1_Witness ==
    /\ applied.done
    /\ applied.status = "Ok"
    /\ Len(replacements) = 3
    /\ ValueAt(1).status = "Skip"
    /\ ValueAt(2) = OkValue(<<>>)
    /\ ValueAt(3).status = "Ok"
    /\ Len(ValueAt(3).value) # Len(RangeText(3))
    /\ ValueAt(3).value # <<>>

\* the offsets of the close markers that follow the open marker at start
ClosesAfter(start) ==
    { i \in Occurrences(html, TEMPLATE_CLOSE_MARKER) :
        i >= start + Len(TEMPLATE_OPEN_MARKER) }

\* C10: the replacements are in strictly increasing order of start offset,
\* do not overlap and lie in the template text; each range starts at an
\* open marker and ends right after the first close marker that follows it.
C10_RangesSortedAndDelimited ==
    /\ \A k \in DOMAIN replacements :
          /\ replacements[k].start \in Occurrences(html, TEMPLATE_OPEN_MARKER)
          /\ replacements[k].end <= Len(html)
          /\ ClosesAfter(replacements[k].start) # {}
          /\ replacements[k].end
                = Min(ClosesAfter(replacements[k].start))
                  + Len(TEMPLATE_CLOSE_MARKER)
    /\ \A k \in 1..(Len(replacements) - 1) :
          /\ replacements[k].start < replacements[k + 1].start
          /\ replacements[k].end <= replacements[k + 1].start

\* two replacements, the first of which has a second open marker inside
C10_Witness ==
    /\ loaded
    /\ Len(replacements) = 2
    /\ \E i \in Occurrences(html, TEMPLATE_OPEN_MARKER) :
          replacements[1].start < i /\ i < replacements[1].end

(***************************************************************************)
(* Claims on directives that are not understood.                           *)
(***************************************************************************)
\* the directives of the template text, from offset on: a directive starts
\* at the first open marker and ends after the first close marker that
\* follows it, and the next one is looked for after that close marker
RECURSIVE DirectivesFrom(_)
DirectivesFrom(offset) ==
    LET opens == { i \in Occurrences(html, TEMPLATE_OPEN_MARKER) : i >= offset }
        start == Min(opens)
        end == Min(ClosesAfter(start)) + Len(TEMPLATE_CLOSE_MARKER)
    IN  IF opens = {} THEN <<>>
        ELSE IF ClosesAfter(start) = {} THEN <<>>
        ELSE <<[start |-> start, end |-> end]>> \o DirectivesFrom(end)

\* the rule name is one of the six and the argument it requires is there
WellFormed(d) ==
    LET name == ParseNextValue(SubSeq(html,
                                      d.start + Len(TEMPLATE_OPEN_MARKER) + 1,
                                      d.end - Len(TEMPLATE_CLOSE_MARKER)))
    IN  /\ name.some
        /\ \/ name.value \in {RULE_CONTENTS, RULE_CSS, RULE_TOC}
           \/ /\ name.value \in {RULE_LIST, RULE_META, RULE_INCLUDE}
              /\ ParseNextValue(name.rest).some

\* where the scan stopped: the end of the last directive
ScanEnd ==
    IF DirectivesFrom(0) = <<>> THEN 0
    ELSE DirectivesFrom(0)[Len(DirectivesFrom(0))].end

\* by how much the text at offset has moved in the output of apply
RECURSIVE ShiftUpTo(_, _)
ShiftUpTo(k, offset) ==
    IF k = 0 THEN 0
    ELSE ShiftUpTo(k - 1, offset)
         + (IF replacements[k].end <= offset
            THEN Len(Piece(k)) - Len(RangeText(k)) ELSE 0)

Shift(offset) == ShiftUpTo(Len(replacements), offset)

\* C11: a directive whose rule name is not recognized or whose required
\* argument is missing gives no replacement and its text stands unchanged in
\* the output of apply, and the directives after it are still parsed; an
\* open marker with no close marker after it ends the scan, the replacements
\* found before it are kept and the text from there on stays as it is.
C11_UnknownDirectivesLeftLiteral ==
    loaded =>
        /\ [k \in DOMAIN replacements |->
               [start |-> replacements[k].start, end |-> replacements[k].end]]
              = SelectSeq(DirectivesFrom(0), WellFormed)
        /\ (applied.done /\ applied.status = "Ok") =>
              /\ \A i \in DOMAIN DirectivesFrom(0) :
                    LET d == DirectivesFrom(0)[i]
                    IN  ~WellFormed(d) =>
                            SubSeq(applied.html, d.start + Shift(d.start) + 1,
                                   d.end + Shift(d.start))
                              = SubSeq(html, d.start + 1, d.end)
              /\ Len(applied.html) = Len(html) + Shift(Len(html))
              /\ Drop(applied.html, ScanEnd + Shift(Len(html)))
                    = Drop(html, ScanEnd)

\* a directive that is not understood stands between two that are, the
\* first of which has a value of another length than its text, and an open
\* marker that is never closed follows
C11_Witness ==
    /\ applied.done
    /\ applied.status = "Ok"
    /\ \E i \in DOMAIN DirectivesFrom(0) :
          LET d == DirectivesFrom(0)[i]
          IN  /\ ~WellFormed(d)
              /\ Shift(d.start) # 0
              /\ \E k \in DOMAIN replacements : replacements[k].start >= d.end
    /\ \E o \in Occurrences(html, TEMPLATE_OPEN_MARKER) : o >= ScanEnd

(***************************************************************************)
(* Claims on parse_next_value.                                             *)
(***************************************************************************)
\* s without its leading ASCII whitespace
TrimStart(s) ==
    LET others == { i \in DOMAIN s : s[i] \notin {" ", "\t", "\n", "\f", "\r"} }
    IN  IF others = {} THEN <<>> ELSE SubSeq(s, Min(others), Len(s))

\* the bytes of t before its first ASCII whitespace, and the bytes from there
BareEnd(t) ==
    LET blanks == { i \in DOMAIN t : t[i] \in {" ", "\t", "\n", "\f", "\r"} }
    IN  IF blanks = {} THEN Len(t) + 1 ELSE Min(blanks)

\* in t, which opens with a quote: the byte at i is escaped when an odd
\* number of backslashes stands right before it
IsEscaped(t, i) ==
    LET run == { n \in 0..(i - 2) : \A j \in (i - n)..(i - 1) : t[j] = "\\" }
    IN  (CHOOSE n \in run : \A m \in run : m <= n) % 2 = 1

\* the place of the first quote that is not escaped, or past the end
ClosingQuote(t) ==
    LET closing == { i \in 2..Len(t) : t[i] = "\"" /\ ~IsEscaped(t, i) }
    IN  IF closing = {} THEN Len(t) + 1 ELSE Min(closing)

\* the bytes between the quotes without the backslashes that escape
QuotedContent(t) ==
    LET kept == { i \in 2..(ClosingQuote(t) - 1) :
                    ~(t[i] = "\\" /\ ~IsEscaped(t, i)) }
    IN  [k \in 1..Cardinality(kept) |->
            t[CHOOSE i \in kept : Cardinality({ j \in kept : j <= i }) = k]]

\* C12: parse_next_value skips leading ASCII whitespace and returns None
\* exactly when nothing else remains; otherwise it returns the bytes up to
\* the next whitespace or, after an opening quote, the content up to the
\* first quote that is not escaped, with each escaping backslash removed and
\* the byte after it kept; a quote that is never closed gives everything up
\* to the end of the string.
C12_ParseNextValue ==
    /\ ParseNextValue(<<"\"", "\\", "\"", "\"">>).value = <<"\"">>
    /\ ParseNextValue(<<"\"", "\\", "\\", "\"">>).value = <<"\\">>
    /\ ParseNextValue(<<"\"", "\\", "_", "\"">>).value = <<"_">>
    /\ ParseNextValue(<<"\"", "a", "_">>).value = <<"a", "_">>
    /\ \A c \in DOMAIN parse_calls :
          LET call == parse_calls[c]
              t == TrimStart(call.string)
          IN  /\ call.some = (t # <<>>)
              /\ (t # <<>> /\ t[1] # "\"") =>
                    /\ call.value = SubSeq(t, 1, BareEnd(t) - 1)
                    /\ call.rest = SubSeq(t, BareEnd(t), Len(t))
              /\ (t # <<>> /\ t[1] = "\"") =>
                    /\ call.value = QuotedContent(t)
                    /\ call.rest = SubSeq(t, ClosingQuote(t) + 1, Len(t))
    /\ values = [c \in 1..Len(values) |-> parse_calls[c].value]

\* a quoted value with an escaped quote in it and a bare token after it have
\* been returned, and the third call has returned None
C12_Witness ==
    /\ Len(parse_calls) = 3
    /\ parse_calls[1].string = <<"\"", "\\", "\"", "\"", "a">>
    /\ values = << <<"\"">>, <<"a">> >>
    /\ ~parse_calls[3].some

(***************************************************************************)
(* Claims on the Toc rule.                                                 *)
(***************************************************************************)
\* the template is one TOC directive and has been applied
TocApplied ==
    /\ applied.done
    /\ applied.status = "Ok"
    /\ Len(replacements) = 1
    /\ replacements[1].rule.kind = "Toc"
    /\ replacements[1].end - replacements[1].start = Len(html)

\* the entries of the toc that are not deeper than max_depth
Shown ==
    LET NotTooDeep(entry) == entry.depth <= replacements[1].rule.depth
    IN  SelectSeq(applied.post.toc, NotTooDeep)

\* how often token stands in the first n tokens of the output
CountBefore(token, n) ==
    Cardinality({ p \in 1..n : applied.html[p] = token })

\* the place of the k-th <li> of the output
ItemPlace(k) ==
    CHOOSE p \in DOMAIN applied.html :
        applied.html[p] = "<li>" /\ CountBefore("<li>", p) = k

\* C13: the Toc rule writes one <li> for each entry not deeper than
\* max_depth, in the order of the toc, and none for the others, which do not
\* move the nesting either; where an entry's <li> is written as many <ul> are
\* open as the entry is deep; at the end every <ul> has been closed.
C13_TocNesting ==
    TocApplied =>
        /\ CountBefore("<li>", Len(applied.html)) = Len(Shown)
        /\ \A k \in DOMAIN Shown :
              /\ applied.html[ItemPlace(k) + 1] = Shown[k].heading[1]
              /\ applied.html[ItemPlace(k) + 2] = "</li>"
              /\ CountBefore("<ul>", ItemPlace(k))
                    - CountBefore("</ul>", ItemPlace(k)) = Shown[k].depth
        /\ CountBefore("<ul>", Len(applied.html))
              = CountBefore("</ul>", Len(applied.html))

\* an entry that is too deep stands between two that are shown: two lists
\* are opened for the first of them and one is closed for the second
C13_Witness ==
    /\ TocApplied
    /\ Len(applied.post.toc) = 3
    /\ Len(Shown) = 2
    /\ applied.post.toc[2].depth > replacements[1].rule.depth
    /\ Shown[1].depth = 2
    /\ Shown[2].depth = 1

\* the toc [("A", 1), ("B", 2), ("C", 1)] applied with max_depth = 2
TocExample ==
    /\ TocApplied
    /\ replacements[1].rule.depth = 2
    /\ applied.post.toc = <<[heading |-> <<"A">>, depth |-> 1],
                            [heading |-> <<"B">>, depth |-> 2],
                            [heading |-> <<"C">>, depth |-> 1]>>

\* C14 as stated: the toc [("A", 1), ("B", 2), ("C", 1)] with max_depth = 2
\* gives <ul><li>A</li><ul><li>B</li></ul></ul><ul><li>C</li></ul>.
C14_ClosesFullyBeforeC ==
    TocExample =>
        applied.html = <<"<ul>", "<li>", "A", "</li>", "<ul>", "<li>", "B",
                         "</li>", "</ul>", "</ul>", "<ul>", "<li>", "C",
                         "</li>", "</ul>">>

\* C14 amended: the toc [("A", 1), ("B", 2), ("C", 1)] with max_depth = 2
\* gives <ul><li>A</li><ul><li>B</li></ul><li>C</li></ul>: one list is
\* closed before C, and C stands in the list A stands in.
C14_ClosesBackToOne ==
    TocExample =>
        applied.html = <<"<ul>", "<li>", "A", "</li>", "<ul>", "<li>", "B",
                         "</li>", "</ul>", "<li>", "C", "</li>", "</ul>">>

C14_Witness == TocExample /\ Len(applied.html) = 13

(***************************************************************************)
(* Claims on the Listing rule.                                             *)
(***************************************************************************)
\* the template is one LIST directive and has been applied
ListingApplied ==
    /\ applied.done
    /\ applied.status = "Ok"
    /\ Len(replacements) = 1
    /\ replacements[1].rule.kind = "Listing"
    /\ replacements[1].end - replacements[1].start = Len(html)

\* the posts of the list under the path of the directive, by their place
UnderPath ==
    { i \in DOMAIN applied.files :
        PathStartsWith(applied.files[i].path,
                       GetAbsPath(Root, applied.post.path,
                                  replacements[1].rule.path).path) }

\* the key of the sort as a number: the place of the title in the alphabet,
\* the date, or the place of the value of the metadata among the values of
\* the posts, 0 for a post with no such metadata
KeyOf(i) ==
    LET key == replacements[1].rule.sort_by.key
        meta == applied.files[i].meta
    IN  CASE key.kind = "Title" ->
               CHOOSE n \in 1..3 : <<"A", "B", "C">>[n] = applied.files[i].title[1]
          [] key.kind = "Meta" ->
               IF key.name \notin DOMAIN meta THEN 0
               ELSE CHOOSE n \in 1..4 :
                       << <<>>, <<"u">>, <<"u", "v">>, <<"v">> >>[n] = meta[key.name]
          [] OTHER -> applied.files[i].date

\* the post at j is listed before the post at i
ListedBefore(j, i) ==
    LET sort_by == replacements[1].rule.sort_by
    IN  IF ~sort_by.some THEN j < i
        ELSE IF sort_by.asc
             THEN KeyOf(j) < KeyOf(i) \/ (KeyOf(j) = KeyOf(i) /\ j < i)
        ELSE KeyOf(j) > KeyOf(i) \/ (KeyOf(j) = KeyOf(i) /\ j < i)

\* the places of the posts listed, in the order of the listing
ListingOrder ==
    [k \in 1..Cardinality(UnderPath) |->
        CHOOSE i \in UnderPath :
            Cardinality({ j \in UnderPath : ListedBefore(j, i) }) = k - 1]

\* the <li> of the post at i
ListItem(i) ==
    <<"<li><a href=\"">>
    \o GetRelativeUri(applied.post.uri, applied.files[i].uri).uri
    \o <<"\">">> \o applied.files[i].title \o <<"</a></li>">>

\* C15: the Listing rule writes one <li> for each post under the path of the
\* directive and none for the others; without a sort they stand in the
\* order of the post list, with a sort in nondecreasing (asc) or
\* nonincreasing (desc) order of the key, posts with equal keys in the order
\* of the post list; sort title desc over the titles B, A, C gives C, B, A.
C15_ListingOrder ==
    ListingApplied =>
        /\ applied.html
              = <<"<ul>">>
                \o Flatten([k \in DOMAIN ListingOrder |-> ListItem(ListingOrder[k])])
                \o <<"</ul>">>
        /\ ( /\ [i \in DOMAIN applied.files |-> applied.files[i].title]
                  = << <<"B">>, <<"A">>, <<"C">> >>
             /\ replacements[1].rule.sort_by.some
             /\ replacements[1].rule.sort_by.key.kind = "Title"
             /\ ~replacements[1].rule.sort_by.asc
             /\ UnderPath = 1..3 )
           => ListingOrder = <<3, 1, 2>>

\* the posts titled B, A, C, all under the path, listed by sort title desc
C15_Witness ==
    /\ ListingApplied
    /\ [i \in DOMAIN applied.files |-> applied.files[i].title]
          = << <<"B">>, <<"A">>, <<"C">> >>
    /\ UnderPath = 1..3
    /\ replacements[1].rule.sort_by.some
    /\ replacements[1].rule.sort_by.key.kind = "Title"
    /\ ~replacements[1].rule.sort_by.asc
    /\ Len(applied.html) > 2

Unreadable(k) ==
    /\ replacements[k].rule.kind = "Include"
    /\ LET path == GetAbsPath(Root, applied.post.path, replacements[k].rule.path)
       IN  path.some /\ ~ReadToString(applied.fs, path.path).some

\* what the k-th range has become when the unreadable includes are left as
\* they are
Replaced(k) ==
    IF ~Unreadable(k) /\ ValueAt(k).status = "Ok" THEN ValueAt(k).value
    ELSE RangeText(k)

\* by how much the text at offset has moved then
RECURSIVE MovedUpTo(_, _)
MovedUpTo(k, offset) ==
    IF k = 0 THEN 0
    ELSE MovedUpTo(k - 1, offset)
         + (IF replacements[k].end <= offset
            THEN Len(Replaced(k)) - Len(RangeText(k)) ELSE 0)

PlaceOf(k) ==
    replacements[k].start + MovedUpTo(Len(replacements), replacements[k].start)

\* no rule but an unreadable include stops the apply
OthersSucceed ==
    \A j \in DOMAIN replacements : ~Unreadable(j) => ValueAt(j).status # "Panic"

\* C17: when the file of an Include cannot be read, apply returns no error,
\* the text of the directive stands unreplaced in the output, and every
\* other replacement, before it and after it, is made with the value of its
\* rule.
C17_FailedIncludeSkipped ==
    (applied.done /\ OthersSucceed) =>
        \A k \in DOMAIN replacements :
            Unreadable(k) =>
                /\ applied.status = "Ok"
                /\ SubSeq(applied.html, PlaceOf(k) + 1,
                          PlaceOf(k) + Len(RangeText(k))) = RangeText(k)
                /\ \A j \in DOMAIN replacements :
                      ~Unreadable(j) =>
                          SubSeq(applied.html, PlaceOf(j) + 1,
                                 PlaceOf(j) + Len(Replaced(j))) = Replaced(j)
                /\ Len(applied.html) = Len(html) + MovedUpTo(Len(replacements), Len(html))

\* an include that cannot be read between two directives whose values are
\* not as long as their texts
C17_Witness ==
    /\ applied.done
    /\ applied.status = "Ok"
    /\ \E k \in DOMAIN replacements :
          /\ Unreadable(k)
          /\ \E j \in 1..(k - 1) :
                ~Unreadable(j) /\ Len(ValueAt(j).value) # Len(RangeText(j))
          /\ \E j \in (k + 1)..Len(replacements) :
                ~Unreadable(j) /\ Len(ValueAt(j).value) # Len(RangeText(j))

\* the output of apply put together from the template text, with what piece
\* gives in the place of each range
Assembled(piece(_)) ==
    Flatten([j \in 1..(2 * Len(replacements) + 1) |->
                IF j % 2 = 1 THEN Gap((j + 1) \div 2) ELSE piece(j \div 2)])

\* the text of an unreadable include taken out, with nothing in its place
Removed(k) == IF Unreadable(k) THEN <<>> ELSE Replaced(k)

\* the file an Include names is not there at all
Nonexistent(k) ==
    /\ Unreadable(k)
    /\ GetAbsPath(Root, applied.post.path, replacements[k].rule.path).path
          \notin DOMAIN applied.fs

\* C18 as stated: an Include of a nonexistent path has its marker text
\* removed from the output, with no content in its place and no error.
C18_MarkerTextRemoved ==
    (applied.done /\ OthersSucceed /\ \E k \in DOMAIN replacements : Nonexistent(k)) =>
        /\ applied.status = "Ok"
        /\ applied.html = Assembled(Removed)

\* C18: an Include of a nonexistent path leaves its marker text in place in
\* the output and contributes no content, and apply returns no error.
C18_MarkerTextKept ==
    (applied.done /\ OthersSucceed /\ \E k \in DOMAIN replacements : Nonexistent(k)) =>
        /\ applied.status = "Ok"
        /\ applied.html = Assembled(Replaced)

\* a template that is one Include directive, applied to a post with no such
\* file beside it although other files can be read
C18_Witness ==
    /\ applied.done
    /\ applied.status = "Ok"
    /\ Len(replacements) = 1
    /\ Nonexistent(1)
    /\ replacements[1].start = 0
    /\ replacements[1].end = Len(html)
    /\ applied.fs = FsFull
    /\ applied.html = html

\* C19 as stated: parsing and applying a template never panic; every
\* failure on the way ends in a degraded result or in a returned error.
C19_NeverPanics ==
    applied.done => applied.status # "Panic"

\* the template includes a file that can be read and whose name has no
\* extension, and apply has panicked
C19_Witness ==
    /\ applied.done
    /\ applied.status = "Panic"
    /\ \E k \in DOMAIN replacements :
          /\ replacements[k].rule.kind = "Include"
          /\ LET path == GetAbsPath(Root, applied.post.path,
                                    replacements[k].rule.path)
             IN  /\ path.some
                 /\ ReadToString(applied.fs, path.path).some
                 /\ ~PathExtension(path.path).some

\* where the file the template text was read from may lie: in the root, or
\* beside the posts of one directory or of the other
TemplatePaths ==
    { PathOf(<<"/", "r", "/", "t", ".", "h", "t", "m", "l">>),
      PathOf(<<"/", "r", "/", "a", "/", "t", ".", "h", "t", "m", "l">>),
      PathOf(<<"/", "r", "/", "b", "/", "t", ".", "h", "t", "m", "l">>) }

\* the value of the k-th rule when the path of an Include is taken from the
\* directory of the template file at path t
ValueFrom(t, k) ==
    IF replacements[k].rule.kind = "Include"
    THEN IncludeValue(replacements[k].rule, Root,
                      [applied.post EXCEPT !.path = t], applied.fs)
    ELSE ValueAt(k)

\* C20 as stated: the path of an Include is taken from the directory of the
\* template file that holds the directive, and from the site root, without
\* its leading '/', when it starts with '/'.
C20_RelativeToTemplate ==
    \A t \in TemplatePaths :
        (/\ applied.done
         /\ applied.status = "Ok"
         /\ \A k \in DOMAIN replacements : ValueFrom(t, k).status # "Panic") =>
            LET FromTemplate(k) ==
                    IF ValueFrom(t, k).status = "Ok" THEN ValueFrom(t, k).value
                    ELSE RangeText(k)
            IN  applied.html = Assembled(FromTemplate)

\* a template that is one Include of a path with no '/' in front, applied to
\* a post with no such file beside it: the directive stands as it is, while
\* with the same files on disk a post of the other directory gets the text
C20_Witness ==
    /\ applied.done
    /\ applied.status = "Ok"
    /\ applied.fs = FsFull
    /\ Len(replacements) = 1
    /\ replacements[1].rule.kind = "Include"
    /\ ~StartsWith(replacements[1].rule.path, <<"/">>)
    /\ applied.post = PostC
    /\ applied.html = html
    /\ RuleValue(replacements[1].rule, Root, PostA, all_posts, CssFiles, FsFull).status
          = "Ok"

(***************************************************************************)
(* Claims on the Css rule.                                                 *)
(***************************************************************************)
\* the URI of a style sheet up to its last '/', the '/' left out
CssDir(css) ==
    LET slashes == { i \in DOMAIN css : css[i] = "/" }
        last == CHOOSE i \in slashes : \A j \in slashes : j <= i
    IN  SubSeq(css, 1, last - 1)

\* the directory part of the i-th style sheet is a prefix of the post's URI
Linked(i) ==
    LET dir == CssDir(applied.css_files[i])
    IN  /\ Len(dir) <= Len(applied.post.uri)
        /\ SubSeq(applied.post.uri, 1, Len(dir)) = dir

LinkTag(css) ==
    <<"<link rel=\"stylesheet\" type=\"text/css\" href=\"">> \o css \o <<"\">">>

\* one tag for each linked style sheet, in the order of the list
LinkTags ==
    Flatten([i \in DOMAIN applied.css_files |->
                IF Linked(i) THEN LinkTag(applied.css_files[i]) ELSE <<>>])

\* C21: the Css rule gives one <link rel="stylesheet"> tag for each CSS URI
\* whose part up to its last '/' is a prefix of the post's URI and none for
\* the others, the tags in the order of the CSS list.
C21_CssLinks ==
    applied.done =>
        /\ applied.status = "Ok"
        /\ \A k \in DOMAIN replacements :
              replacements[k].rule.kind = "Css" =>
                  SubSeq(applied.html, replacements[k].start + 1,
                         Len(applied.html) - (Len(html) - replacements[k].end))
                    = LinkTags

\* a list of three style sheets: the first and the last are linked and are
\* not the same, the one between them is not linked
C21_Witness ==
    /\ applied.done
    /\ Len(applied.css_files) = 3
    /\ Linked(1) /\ ~Linked(2) /\ Linked(3)
    /\ applied.css_files[1] # applied.css_files[3]
    /\ \E k \in DOMAIN replacements : replacements[k].rule.kind = "Css"

(***************************************************************************)
(* Calls of apply on one template.                                         *)
(***************************************************************************)
Returned(t) == apply_calls[t].status # "Running"
Outcome(t) == [status |-> apply_calls[t].status, html |-> apply_calls[t].html]
SameInput(t, u) ==
    /\ apply_calls[t].post = apply_calls[u].post
    /\ apply_calls[t].fs = apply_calls[u].fs

ThisRender ==
    [events |-> events, out |-> out, heading_calls |-> heading_calls,
     numbers |-> numbers]
RendersOver ==
    IF iter = <<>> /\ queue = <<>> THEN Append(renders, ThisRender) ELSE renders

\* C24: no state of a render reaches the next one: every render starts
\* with no heading identifier, no footnote number and title_written false,
\* so two renders of the same events, whatever was rendered between them,
\* give the same output, the same heading identifiers and the same footnote
\* numbers.
C24_NoLeakBetweenRenders ==
    /\ filtered = <<>> =>
          /\ heading_identifiers = {}
          /\ DOMAIN numbers = {}
          /\ ~title_written
    /\ \A i, j \in DOMAIN RendersOver :
          RendersOver[i].events = RendersOver[j].events
             => RendersOver[i] = RendersOver[j]

\* a document with two headings of the same text and then one with two
\* footnote references have been rendered, then the first once more
C24_Witness ==
    /\ Len(RendersOver) = 3
    /\ RendersOver[1].events = RendersOver[3].events
    /\ RendersOver[2].events # RendersOver[1].events
    /\ Len(RendersOver[1].heading_calls) = 2
    /\ DOMAIN RendersOver[2].numbers = {LabelA, LabelB}
(***************************************************************************)
(* The heading identifiers in the value of the Contents rule.              *)
(***************************************************************************)
\* the identifiers written as id="..." in a text, in the order of the text
IdsIn(text) ==
    LET Opens == { p \in DOMAIN text : text[p] = " id=\"" }
        Close(p) == Least({ q \in p..Len(text) : text[q] = "\">" })
    IN  [n \in 1..Cardinality(Opens) |->
            LET p == Nth(Opens, n) IN SubSeq(text, p + 1, Close(p) - 1)]

\* the texts of the headings of a post, in the order of the post
HeadingTextsOf(post) ==
    LET evs == post.markdown
        At == { i \in 2..Len(evs) :
                  /\ evs[i].type = "Text"
                  /\ evs[i - 1].type = "Start" /\ evs[i - 1].tag = "Heading" }
    IN  [n \in 1..Cardinality(At) |-> evs[Nth(At, n)].arg]

\* the identifiers the allocator issues for the texts, from an empty set
ContractIds(texts) ==
    LET F[i \in 0..Len(texts)] ==
            IF i = 0 THEN <<>>
            ELSE Append(F[i - 1],
                        HeadingId({ F[i - 1][j] : j \in 1..(i - 1) }, texts[i]))
    IN  F[Len(texts)]

\* C25: the Contents rule renders the markdown of the post with heading
\* identifiers that follow the contract of the heading anchor allocator,
\* the state being that of this one evaluation: a heading whose normalized
\* identifier X was issued before in the evaluation gets X_n, n from 2, and
\* the identifiers of an earlier evaluation of Contents count for nothing.
C25_ContentsIds ==
    applied.done /\ applied.status = "Ok" =>
        LET n == Cardinality({ k \in DOMAIN replacements :
                                 replacements[k].rule.kind = "Contents" })
        IN  IdsIn(applied.html)
               = Flatten([k \in 1..n |-> ContractIds(HeadingTextsOf(applied.post))])

\* a template of two CONTENTS directives has been applied to a post whose
\* two headings normalize to x: each evaluation wrote the identifiers x
\* and x2
C25_Witness ==
    /\ applied.done /\ applied.status = "Ok"
    /\ IdsIn(applied.html) = << <<"x">>, <<"x", "2">>, <<"x">>, <<"x", "2">> >>
(***************************************************************************)
(* Claims on the newline flag of the writer.                               *)
(***************************************************************************)
\* the tokens that open a block-level tag
BlockOpenToks ==
    { "<p>", "<h", "<blockquote>", "<pre>", "<ul>", "<ol>", "<ol start=\"",
      "<li>", "<hr />", "<p class=\"footnote\" id=\"f." }

\* C26 as stated: after every event end_newline tells whether the output
\* ends in a newline (it is true for the empty output), and so every
\* block-level opening tag but the first thing written has exactly one
\* newline in front of it: no blank line before it, no text glued to it.
C26_NewlineFlag ==
    /\ end_newline = (out = <<>> \/ out[Len(out)] = "\n")
    /\ \A p \in DOMAIN out :
          out[p] \in BlockOpenToks =>
              /\ p > 1 => out[p - 1] = "\n"
              /\ p > 2 => ~(out[p - 1] = "\n" /\ out[p - 2] = "\n")

\* a footnote definition has been closed and a paragraph opened after it,
\* with an empty line between the two
C26_Witness ==
    \E p \in DOMAIN out :
        /\ p > 3
        /\ out[p] = "<p>"
        /\ out[p - 1] = "\n"
        /\ out[p - 2] = "\n"
        /\ out[p - 3] = "</p>"

(***************************************************************************)
(* Images in the written output.                                           *)
(***************************************************************************)
ImageStarts ==
    { i \in DOMAIN filtered :
        filtered[i][1].type = "Start" /\ filtered[i][1].tag = "Image" }
ImgToks == { p \in DOMAIN out : out[p] = "<img src=\"" }
ContainerTok == "<div class=\"image-container\">"
CaptionTok == "<div class=\"image-caption\">"

\* the place where the <img> tag opened at p is closed
ImgEnd(p) == Least({ q \in p..Len(out) : out[q] = "\" />" })

ContainerBefore(p) == p > 2 /\ out[p - 2] = ContainerTok /\ out[p - 1] = "\n"
CaptionAfter(q, title) ==
    LET want == <<"\n", CaptionTok>> \o EscapeHtml(title)
                \o <<"</div>", "\n", "</div>", "\n", "<p>", "\n">>
    IN  /\ q + Len(want) <= Len(out)
        /\ SubSeq(out, q + 1, q + Len(want)) = want
Bare(p, q) ==
    /\ ~ContainerBefore(p)
    /\ q < Len(out) => out[q + 1] # "<p>"
    /\ q + 1 < Len(out) => ~(out[q + 1] = "\n" /\ out[q + 2] \in {CaptionTok, "<p>"})

\* C27: the writer puts an image into <div class="image-container">, with a
\* <div class="image-caption"> holding the escaped title after it and a
\* reopened paragraph after that, exactly when the Start event of the image
\* came from the classifier with the standalone flag; every other image is
\* a bare <img> with no container, no caption and no reopened paragraph.
C27_ContainerIffStandalone ==
    /\ Cardinality(ImgToks) = Cardinality(ImageStarts)
    /\ Cardinality({ p \in DOMAIN out : out[p] = ContainerTok })
          = Cardinality({ i \in ImageStarts : filtered[i][2] })
    /\ Cardinality({ p \in DOMAIN out : out[p] = CaptionTok })
          = Cardinality({ i \in ImageStarts : filtered[i][2] })
    /\ \A k \in 1..Cardinality(ImageStarts) :
          LET i == Nth(ImageStarts, k)
              p == Nth(ImgToks, k)
          IN  IF filtered[i][2]
              THEN /\ ContainerBefore(p)
                   /\ CaptionAfter(ImgEnd(p), filtered[i][1].title)
              ELSE Bare(p, ImgEnd(p))

\* an image inside running text was written bare and an image alone in its
\* paragraph after it was written in a container
C27_Witness ==
    /\ iter = <<>> /\ queue = <<>>
    /\ \E p, q \in ImgToks :
          /\ p < q
          /\ out[p - 1] = "t" /\ ~ContainerBefore(p)
          /\ ContainerBefore(q)
(***************************************************************************)
(* Claims on the lookahead queue of the filter.                            *)
(***************************************************************************)
\* the queue as lookahead_n(5) leaves it at the start of the next call
Lookahead == LookaheadN([iter |-> iter, queue |-> queue], 5).queue

\* the next call of next() finds the five events of an image paragraph
MatchesNext ==
    Lookahead # <<>> /\ IsImageParagraph(Head(Lookahead), Tail(Lookahead))

\* C28: the lookahead queue never holds more than 5 events, between the
\* calls of next() and after the lookahead inside a call, and a call that
\* matches an image paragraph leaves exactly the text and the end event of
\* the image at the front of the queue, in that order.
C28_QueueBounded ==
    /\ [](Len(queue) <= 5 /\ Len(Lookahead) <= 5)
    /\ [][MatchesNext => queue' = <<Lookahead[3], Lookahead[4]>>]_vars

\* a call has just matched an image paragraph and the next lookahead fills
\* the queue to five again
C28_Witness ==
    /\ filtered # <<>>
    /\ filtered[Len(filtered)][2]
    /\ Len(queue) = 2
    /\ queue[1].type = "Text"
    /\ queue[2].type = "End" /\ queue[2].tag = "Image"
    /\ Len(Lookahead) = 5

(***************************************************************************)
(* Claims on a Listing sorted by a key of the metadata.                    *)
(***************************************************************************)
\* the Listing is sorted by a key that is none of the keys of MetaKey
SortedByMeta ==
    /\ ListingApplied
    /\ replacements[1].rule.sort_by.some
    /\ replacements[1].rule.sort_by.key.kind = "Meta"

\* the post at i has the key of the sort in its metadata
HasKey(i) ==
    replacements[1].rule.sort_by.key.name \in DOMAIN applied.files[i].meta

\* the values of the posts at i and j compare as Less or Equal, byte by
\* byte, a value that is the start of another being the lesser
ValueNotAfter(i, j) ==
    LET key == replacements[1].rule.sort_by.key.name
        a == applied.files[i].meta[key]
        b == applied.files[j].meta[key]
        Order == <<"u", "v">>
        Code(c) == CHOOSE n \in DOMAIN Order : Order[n] = c
        differ == { n \in 1..Len(a) : n > Len(b) \/ a[n] # b[n] }
        first == CHOOSE n \in differ : \A m \in differ : n <= m
    IN  IF differ = {} THEN TRUE
        ELSE first <= Len(b) /\ Code(a[first]) < Code(b[first])

\* the orders the posts under the path may be listed in
ListingOrders ==
    { order \in [1..Cardinality(UnderPath) -> UnderPath] :
        \A m, n \in DOMAIN order : m # n => order[m] # order[n] }

\* C29: in a Listing sorted by a key of the metadata, a post without the
\* key is no error and counts as the minimum: ascending, every post without
\* the key is listed before every post with it, descending after; the posts
\* that have the key are listed in the order of their values.
C29_MissingKeyIsMinimum ==
    (applied.done /\ Len(replacements) = 1
       /\ replacements[1].rule.kind = "Listing"
       /\ replacements[1].rule.sort_by.some
       /\ replacements[1].rule.sort_by.key.kind = "Meta") =>
        /\ applied.status = "Ok"
        /\ \E order \in ListingOrders :
              /\ applied.html
                    = <<"<ul>">>
                      \o Flatten([n \in DOMAIN order |-> ListItem(order[n])])
                      \o <<"</ul>">>
              /\ \A m, n \in DOMAIN order :
                    m < n =>
                        LET first == IF replacements[1].rule.sort_by.asc
                                     THEN order[m] ELSE order[n]
                            second == IF replacements[1].rule.sort_by.asc
                                      THEN order[n] ELSE order[m]
                        IN  /\ HasKey(first) => HasKey(second)
                            /\ (HasKey(first) /\ HasKey(second)) =>
                                  ValueNotAfter(first, second)

\* three posts are listed in descending order of the key: the first of the
\* post list has no such metadata, the second an empty value, the third a
\* value that is not empty
C29_Witness ==
    /\ SortedByMeta
    /\ ~replacements[1].rule.sort_by.asc
    /\ UnderPath = 1..3
    /\ ~HasKey(1)
    /\ HasKey(2) /\ applied.files[2].meta[<<"k">>] = <<>>
    /\ HasKey(3) /\ applied.files[3].meta[<<"k">>] # <<>>

(***************************************************************************)
(* Tables in the written output.                                           *)
(***************************************************************************)
IsTagEvent(i, type, tag) == filtered[i][1].type = type /\ filtered[i][1].tag = tag
CellStarts == { i \in DOMAIN filtered : IsTagEvent(i, "Start", "TableCell") }
CellToks == { p \in DOMAIN out : out[p] \in {"<th", "<td"} }

\* the last event of the kind before the i-th, 0 if there is none
LastBefore(i, type, tags) ==
    LET S == { j \in 1..(i - 1) : \E tag \in tags : IsTagEvent(j, type, tag) }
    IN  IF S = {} THEN 0 ELSE CHOOSE j \in S : \A l \in S : l <= j

\* the i-th event lies between the Start and the End of a table head
InHead(i) == LastBefore(i, "Start", {"TableHead"}) > LastBefore(i, "End", {"TableHead"})

\* the number of cells ended in the row up to the i-th event: the 0-based
\* place in its row of a cell started by the i-th event
CellIndex(i) ==
    LET row == LastBefore(i, "Start", {"TableHead", "TableRow"})
    IN  Cardinality({ j \in row..i : IsTagEvent(j, "End", "TableCell") })

\* the alignment list of the most recent Start(Table)
AlignmentsAt(i) == filtered[LastBefore(i, "Start", {"Table"})][1].arg

AlignTok(aligns, k) ==
    IF k + 1 > Len(aligns) THEN ">"
    ELSE CASE aligns[k + 1] = "Left" -> " align=\"left\">"
           [] aligns[k + 1] = "Center" -> " align=\"center\">"
           [] aligns[k + 1] = "Right" -> " align=\"right\">"
           [] OTHER -> ">"

\* C30: a table cell is written as <th> exactly when it lies between the
\* Start and the End of the head of the current table and as <td>
\* otherwise, in a second table as in the first; the alignment attribute of
\* the k-th cell (from 0) of a head or body row is the k-th entry of the
\* alignment list of the most recent Start(Table), and the cell index is 0
\* at the start of the head and of each row and one more after each cell.
C30_TableCells ==
    /\ Cardinality(CellToks) = Cardinality(CellStarts)
    /\ \A n \in 1..Cardinality(CellStarts) :
          LET i == Nth(CellStarts, n)
              p == Nth(CellToks, n)
          IN  /\ out[p] = IF InHead(i) THEN "<th" ELSE "<td"
              /\ out[p + 1] = AlignTok(AlignmentsAt(i), CellIndex(i))
    /\ \A i \in DOMAIN filtered :
          i = Len(filtered) =>
             /\ IsTagEvent(i, "Start", "TableHead") \/ IsTagEvent(i, "Start", "TableRow")
                   => table_cell_index = 0
             /\ IsTagEvent(i, "Start", "TableCell") \/ IsTagEvent(i, "End", "TableCell")
                   => table_cell_index = CellIndex(i)

\* a second table has been written after a first one with a body row: its
\* head cell is a <th> and its body cell is a centred <td>
C30_Witness ==
    /\ iter = <<>> /\ queue = <<>>
    /\ \E p, q, r \in CellToks :
          /\ p < q /\ q < r
          /\ out[p] = "<td" /\ out[p + 1] = " align=\"right\">"
          /\ out[q] = "<th" /\ out[q + 1] = " align=\"center\">"
          /\ out[r] = "<td" /\ out[r + 1] = " align=\"center\">"
(***************************************************************************)
(* Claims on the post loader.                                              *)
(***************************************************************************)
PostLoaded == loaded_post # <<>>

\* the text in front of the first colon of a meta line, in lower case
MetaKeyOf(line) ==
    LET colons == { i \in DOMAIN line : line[i] = ":" }
        key == IF colons = {} THEN line ELSE SubSeq(line, 1, Min(colons) - 1)
    IN  Flatten([i \in DOMAIN key |-> ToLowercase(key[i])])

\* what follows the first colon of a meta line
MetaValueOf(line) ==
    LET colons == { i \in DOMAIN line : line[i] = ":" }
    IN  SubSeq(line, Min(colons) + 1, Len(line))

DateKeys ==
    { <<"c", "r", "e", "a", "t", "e", "d">>,
      <<"p", "u", "b", "l", "i", "s", "h", "e", "d">>,
      <<"m", "o", "d", "i", "f", "i", "e", "d">>,
      <<"u", "p", "d", "a", "t", "e", "d">> }

\* a line with no colon, with a key that is not known, or with a date
\* that cannot be read
BadMetaLine(line) ==
    \/ ":" \notin { line[i] : i \in DOMAIN line }
    \/ MetaKeyOf(line) \notin DateKeys \cup { <<"t", "i", "t", "l", "e">>,
                                             <<"p", "a", "t", "h">> }
    \/ MetaKeyOf(line) \in DateKeys /\ ~ParseDate(MetaValueOf(line)).ok

\* the document has a level one heading with text
HasTitleHeading ==
    \E i \in DOMAIN source.body :
        source.body[i].type = "Start" /\ source.body[i].tag = "Heading"
            /\ source.body[i].arg = <<"1">>

\* C31 as stated: every Post the loader returns has a title that is not
\* empty, whatever the meta block holds, and when neither the meta block
\* nor the document gives a title the title is the file name.
C31_TitleNeverEmpty ==
    PostLoaded =>
        /\ loaded_post[1].title # <<>>
        /\ metadata.title = <<>> /\ ~HasTitleHeading =>
              loaded_post[1].title = source.stem

\* a post has been loaded whose meta block has the one line `title: `, and
\* its title is empty
C31_Witness ==
    /\ PostLoaded
    /\ source.fence = "meta"
    /\ source.lines = << <<"t", "i", "t", "l", "e", ":", " ">> >>
    /\ loaded_post[1].title = <<>>

\* the lines of the meta block that the loop goes through
LoopLines == IF source.fence = "meta"
             THEN SelectSeq(source.lines, LAMBDA l : l # <<>>) ELSE <<>>

\* the last line of the block that is not bad and has one of the keys, 0
\* when there is none
LastGood(keys) ==
    LET good == { i \in DOMAIN LoopLines :
                    ~BadMetaLine(LoopLines[i]) /\ MetaKeyOf(LoopLines[i]) \in keys }
    IN  IF good = {} THEN 0 ELSE CHOOSE i \in good : \A j \in good : j <= i

\* C35: a meta line with no colon, with a key that is not known or with a
\* date that cannot be read leaves title, path, created and modified as
\* they are and the loop goes on with the line after it: the Post returned
\* has every field from the last line that is not bad, and the meta block
\* is no longer in its markdown.
C35_BadLinesSkipped ==
    /\ [][meta_lines # <<>> /\ meta_lines' = Tail(meta_lines)
              /\ BadMetaLine(Head(meta_lines)) => metadata' = metadata]_vars
    /\ [](PostLoaded =>
            LET p == loaded_post[1]
                t == LastGood({<<"t", "i", "t", "l", "e">>})
                a == LastGood({<<"p", "a", "t", "h">>})
                c == LastGood({<<"c", "r", "e", "a", "t", "e", "d">>,
                               <<"p", "u", "b", "l", "i", "s", "h", "e", "d">>})
                m == LastGood({<<"m", "o", "d", "i", "f", "i", "e", "d">>,
                               <<"u", "p", "d", "a", "t", "e", "d">>})
            IN  /\ meta_lines = <<>>
                /\ t # 0 => p.title = Trim(MetaValueOf(LoopLines[t]))
                /\ t = 0 /\ ~HasTitleHeading =>
                      p.title = <<"(", "n", "o", " ", "t", "i", "t", "l", "e", ")">>
                /\ p.path = IF a = 0 THEN source.stem
                            ELSE Trim(MetaValueOf(LoopLines[a]))
                /\ p.created = IF c = 0 THEN <<1999, 12, 1>>
                               ELSE ParseDate(MetaValueOf(LoopLines[c])).date
                /\ p.modified = IF m = 0 THEN <<1999, 12, 1>>
                                ELSE ParseDate(MetaValueOf(LoopLines[m])).date
                /\ p.markdown.fence # "meta"
                /\ p.markdown.body = source.body)

\* a post has been loaded whose meta block has a date that cannot be read
\* and then a title: the date is the one of the file, the title is the one
\* of the block, and the block is gone
C35_Witness ==
    /\ PostLoaded
    /\ source.fence = "meta"
    /\ source.lines =
          << <<"c", "r", "e", "a", "t", "e", "d", ":",
               " ", "2", "0", "2", "0", "-", "1", "3", "-", "0", "5">>,
             <<"t", "i", "t", "l", "e", ":", " ", "w">> >>
    /\ loaded_post[1].title = <<"w">>
    /\ loaded_post[1].created = <<1999, 12, 1>>
    /\ loaded_post[1].markdown.fence = "none"
(***************************************************************************)
(* The loop over parse_next_value.                                         *)
(***************************************************************************)
IsSuffix(a, b) ==
    Len(a) <= Len(b) /\ a = SubSeq(b, Len(b) - Len(a) + 1, Len(b))

\* C32: calls of parse_next_value on one cursor return the tokens of the
\* string from left to right and then None; a call that returns a value
\* leaves a strictly shorter string, so the loop that reads values until
\* None comes to its end on every input.
C32_ParseLoopEnds ==
    /\ [](\A c \in DOMAIN parse_calls :
             LET call == parse_calls[c]
             IN  /\ IsSuffix(call.rest, call.string)
                 /\ call.some => Len(call.rest) < Len(call.string)
                 /\ c > 1 => /\ parse_calls[c - 1].some
                             /\ call.string = parse_calls[c - 1].rest)
    /\ <>(parse_calls # <<>> /\ ~parse_calls[Len(parse_calls)].some)

\* three tokens have been returned, the first one quoted and empty, and the fourth
\* call has returned None
C32_Witness ==
    /\ Len(parse_calls) = 4
    /\ parse_calls[1].string = <<"\"", "\"", "a", " ", "_">>
    /\ values = << <<>>, <<"a">>, <<"_">> >>
    /\ ~parse_calls[4].some
(***************************************************************************)
(* Claims on the scan of the source directory.                             *)
(***************************************************************************)
\* the entries of the whole tree that the walk can reach
TreeEntries ==
    { e \in UNION { { tree[d][i] : i \in DOMAIN tree[d] } : d \in DOMAIN tree } :
        e.path.dir = <<>> \/ \E r \in DOMAIN tree[<<>>] :
                              tree[<<>>][r].is_dir /\ tree[<<>>][r].path.name = e.path.dir }

IsMarkdown(e) ==
    LET n == e.path.name
    IN  Len(n) > 2 /\ SubSeq(n, Len(n) - 2, Len(n)) \in { <<".", "m", "d">>,
                                                         <<".", "M", "D">> }

\* C33 as stated: after Scan::new the files to copy are the files of the
\* tree that are not markdown, but for those that a markdown file names as
\* its template.
C33_CopiesAllButTemplates ==
    scan # <<>> /\ scan.stage = "Done" =>
        { scan.files_to_copy[i] : i \in DOMAIN scan.files_to_copy }
            = { e.path : e \in { f \in TreeEntries : ~f.is_dir /\ ~IsMarkdown(f) } }
                \ UNION { { e.template[i] : i \in DOMAIN e.template } :
                            e \in { f \in TreeEntries : IsMarkdown(f) } }

\* the scan of a root with a template, the markdown file that names it and
\* a picture is over: the template is the one file to copy
C33_Witness ==
    /\ scan # <<>> /\ scan.stage = "Done"
    /\ Len(tree[<<>>]) = 3
    /\ tree[<<>>][1].path.name = <<"t", ".", "h", "t", "m", "l">>
    /\ tree[<<>>][2].template = <<tree[<<>>][1].path>>
    /\ tree[<<>>][3].path.name = <<"i", ".", "p", "n", "g">>
    /\ scan.files_to_copy = <<tree[<<>>][1].path>>
(***************************************************************************)
(* Claims on the plan of a blog.                                           *)
(***************************************************************************)
PlanReturned == blog # <<>> /\ result \in {"Running", "Ok", "Err"}

Deletes == { i \in DOMAIN actions : actions[i].kind = "DeleteDir" }

\* the place after the last action of the directory whose DeleteDir is at i
GroupEnd(i) ==
    LET later == { j \in Deletes : j > i }
    IN  IF later = {} THEN Len(actions) - 1 ELSE Min(later)

\* the actions after the DeleteDir at i are the ones of the post p
GroupOf(i, p) ==
    LET dir == <<"dist", p.path>>
    IN  /\ actions[i].path = dir
        /\ GroupEnd(i) = i + 3 + Len(p.assets)
        /\ actions[i + 2].kind = "WriteFile"
        /\ actions[i + 2].path = Append(dir, "index.html")
        /\ actions[i + 2].content = p.title
        /\ \A k \in DOMAIN p.assets :
              /\ actions[i + 2 + k].kind = "Copy"
              /\ actions[i + 2 + k].source = p.assets[k]
              /\ actions[i + 2 + k].path = Append(dir, p.assets[k][Len(p.assets[k])])

\* C34: in the plan of generate_actions every directory starts with its
\* DeleteDir (not_exists_ok, recursive), then its CreateDir, then the files
\* put into it, index.html first and then one Copy for every asset; the
\* actions of the style sheet come before those of the posts, and the last
\* two actions write index.html and then atom.xml in the root.
C34_PlanOrder ==
    PlanReturned =>
        LET n == Len(actions)
            css == IF blog.css_path = <<>> THEN 0 ELSE 1
        IN  /\ n >= 2
            /\ actions[n - 1].kind = "WriteFile"
            /\ actions[n - 1].path = <<"dist", "index.html">>
            /\ actions[n].kind = "WriteFile"
            /\ actions[n].path = <<"dist", "atom.xml">>
            /\ n > 2 => 1 \in Deletes
            /\ Cardinality(Deletes) = Len(blog.posts) + css
            /\ \A i \in Deletes :
                  /\ actions[i].ok /\ actions[i].recursive
                  /\ actions[i + 1].kind = "CreateDir"
                  /\ actions[i + 1].path = actions[i].path
                  /\ \A k \in (i + 2)..(GroupEnd(i) - 1) :
                        /\ actions[k].kind \in {"WriteFile", "Copy"}
                        /\ Take(actions[k].path, 2) = actions[i].path
            /\ css = 1 =>
                  /\ actions[1].path = <<"dist", CSS_DIR_NAME>>
                  /\ GroupEnd(1) = 4
                  /\ actions[3].kind = "Copy"
                  /\ actions[3].source = blog.css_path[1]
                  /\ actions[3].path = <<"dist", CSS_DIR_NAME, CSS_FILE_NAME>>
            /\ \E f \in [DOMAIN blog.posts -> Deletes] :
                  /\ \A a, b \in DOMAIN blog.posts : a # b => f[a] # f[b]
                  /\ \A a \in DOMAIN blog.posts :
                        f[a] > 3 * css /\ GroupOf(f[a], blog.posts[a])

\* the plan of a blog with a style sheet, a post with an asset and a post
\* without has been returned
C34_Witness ==
    /\ PlanReturned
    /\ blog.css_path # <<>>
    /\ Len(blog.posts) = 2
    /\ blog.posts[1].assets # <<>>
    /\ blog.posts[2].path = "a"
    /\ Len(actions) = 12
    /\ actions[4].path = <<"dist", "a">>
    /\ actions[10].kind = "Copy"
(***************************************************************************)
(* The id attribute of a heading.                                          *)
(***************************************************************************)
\* the events handled so far leave a heading open
HeadingOpen ==
    \E i \in DOMAIN filtered :
        /\ filtered[i][1].type = "Start" /\ filtered[i][1].tag = "Heading"
        /\ \A j \in (i + 1)..Len(filtered) :
              ~(filtered[j][1].type = "End" /\ filtered[j][1].tag = "Heading")

\* C36 as stated: the id attribute opened at Start(Heading) is closed before
\* anything else of the heading is written: expecting_heading_text is false
\* whenever End(Heading) or an event other than Text is handled inside a
\* heading, also in an empty heading and in one that starts with inline
\* code or emphasis.
C36_IdClosedFirst ==
    [][LET e == filtered'[Len(filtered')][1]
       IN  HeadingOpen /\ e.type # "Text" => ~expecting_heading_text]_vars

\* the closing tag of an empty heading has been written right after the
\* opening quote of its id attribute, which nothing has closed
C36_Witness ==
    /\ Len(out) >= 5
    /\ SubSeq(out, Len(out) - 4, Len(out)) = <<" id=\"", "</h", "2", ">", "\n">>
    /\ expecting_heading_text
(***************************************************************************)
(* Paragraph tags of a finished render.                                    *)
(***************************************************************************)
ParagraphOpens == { p \in DOMAIN out : out[p] \in {"<p>", DefIdTok} }

ParagraphCloses == { p \in DOMAIN out : out[p] = "</p>" }

C38_AllOrFirstError ==
    /\ result = "Ok" =>
          /\ Len(executed) = Len(actions)
          /\ \A i \in DOMAIN executed : executed[i] # "Failed"
    /\ result = "Err" =>
          /\ executed # <<>>
          /\ \A i \in DOMAIN executed :
                (executed[i] = "Failed") = (i = Len(executed))

\* execute_fs_actions has returned Ok for a CreateDir with exists_ok on a
\* directory that is there followed by a WriteFile into it, and the file
\* has not been written
C38_Witness ==
    /\ blog = <<>>
    /\ result = "Ok"
    /\ Len(actions) = 2
    /\ actions[1].kind = "CreateDir" /\ actions[1].ok
    /\ actions[2].kind = "WriteFile"
    /\ executed = <<"Returned">>
    /\ <<"d", "f">> \notin DOMAIN disk
(***************************************************************************)
(* What HyperlinkHeadings hands on.                                        *)
(***************************************************************************)
IsHeadingStart(e) == e.type = "Start" /\ e.tag = "Heading"

\* C39: once the adaptor has been read to its end it has yielded one event
\* for every event of the underlying iterator, in the same order: a heading
\* start directly followed by text has become an html event with the
\* opening tag and its id, directly followed by that text, and every other
\* event is the event itself.
C39_EveryEventOnce ==
    iter = <<>> /\ head = <<>> =>
        /\ Len(yielded) = Len(events)
        /\ \A i \in DOMAIN yielded :
              IF /\ IsHeadingStart(events[i])
                 /\ i < Len(events)
                 /\ events[i + 1].type = "Text"
              THEN /\ yielded[i].type = "Html"
                   /\ Len(yielded[i].arg) > 4
                   /\ SubSeq(yielded[i].arg, 1, 3) = <<"<h", "2", " id=\"">>
                   /\ yielded[i].arg[Len(yielded[i].arg)] = "\">"
              ELSE yielded[i] = events[i]

\* a heading that starts with text and a heading that starts with inline
\* code have gone through the adaptor
C39_Witness ==
    /\ iter = <<>> /\ head = <<>>
    /\ Len(events) = 6
    /\ IsHeadingStart(events[1]) /\ events[2].type = "Text"
    /\ IsHeadingStart(events[4]) /\ events[5].type = "Code"
    /\ yielded[1].type = "Html"
    /\ yielded[4] = events[4]
\* C40 as stated: in a plan of generate_actions no DeleteDir removes a
\* directory that an earlier action of the plan has put a file into, and no
\* directory is deleted twice, also when posts share a path or a post has
\* the name of the style sheet directory as its path; once the plan has
\* been executed the index.html of every post is in place.
C40_DeleteBeforeWrite ==
    PlanReturned =>
        /\ \A i \in Deletes : \A k \in 1..(i - 1) :
              actions[k].kind \in {"WriteFile", "Copy"} =>
                  Take(actions[k].path, Len(actions[i].path)) # actions[i].path
        /\ \A i, j \in Deletes : i # j => actions[i].path # actions[j].path
        /\ result = "Ok" =>
              \A a \in DOMAIN blog.posts :
                  <<"dist", blog.posts[a].path, "index.html">> \in DOMAIN disk

\* the plan of a blog with a style sheet and a post whose path is the name
\* of the style sheet directory has been executed without error, and the
\* style sheet is not in the output
C40_Witness ==
    /\ PlanReturned
    /\ result = "Ok"
    /\ blog.css_path # <<>>
    /\ Len(blog.posts) = 1
    /\ blog.posts[1].path = CSS_DIR_NAME
    /\ <<"dist", CSS_DIR_NAME, "index.html">> \in DOMAIN disk
    /\ <<"dist", CSS_DIR_NAME, CSS_FILE_NAME>> \notin DOMAIN disk
=============================================================================
